---------------------------- MODULE Spec2Model ----------------------------
(***************************************************************************)
(* Model of the material-configs build pipeline: the merge engine          *)
(* (build/merge.ts), the format registry (build/generators/registry.ts),   *)
(* the override loader (build/loaders.ts) and the two generators           *)
(* (build/generators/bambuslicer.ts, build/generators/prusaslicer.ts).     *)
(*                                                                         *)
(* Strings are TLA+ strings; TLC evaluates Len, \o and SubSeq on them, so  *)
(* the substring tests and regular expressions of the code are computed    *)
(* character by character.  A JSON value is a record [t, v] tagged with    *)
(* its JavaScript type; an object is a function from its keys to values.   *)
(***************************************************************************)
EXTENDS Integers, Sequences, FiniteSets, TLC

(***************************************************************************)
(* Bounds of the model.                                                    *)
(***************************************************************************)
\* Array elements of the merge inputs are drawn from 1..MaxElem.
MaxElem == 3
\* Arrays of the flat merge inputs have at most MaxArrLen elements.
MaxArrLen == 2
\* Nesting depth of the objects handed to deepMerge.
MaxDepth == 2

(***************************************************************************)
(* JSON values.                                                            *)
(***************************************************************************)
Null == [t |-> "null", v |-> 0]
Num(n) == [t |-> "num", v |-> n]
Str(s) == [t |-> "str", v |-> s]
Bool(b) == [t |-> "bool", v |-> b]
Arr(seq) == [t |-> "arr", v |-> seq]
Obj(f) == [t |-> "obj", v |-> f]
\* The outcome of a call that threw.
Thrown(kind) == [t |-> "throw", v |-> kind]

EmptyFn == [k \in {} |-> Null]
EmptyObj == Obj(EmptyFn)

IsNull(x) == x.t = "null"
IsArr(x) == x.t = "arr"
IsObj(x) == x.t = "obj"
IsThrown(x) == x.t = "throw"
IsUndefined(x) == x.t = "undefined"

\* obj[key] of JavaScript: the value, or undefined (here: Undefined) when
\* the key is absent.
Undefined == [t |-> "undefined", v |-> 0]
Get(obj, key) == IF key \in DOMAIN obj.v THEN obj.v[key] ELSE Undefined

\* JavaScript truthiness (used by `x || []`, `if (!x)`, `if (config.version)`).
Truthy(x) ==
  CASE x.t = "null" -> FALSE
    [] x.t = "undefined" -> FALSE
    [] x.t = "num" -> x.v # 0
    [] x.t = "str" -> x.v # ""
    [] x.t = "bool" -> x.v
    [] OTHER -> TRUE

(***************************************************************************)
(* JavaScript string methods.                                              *)
(***************************************************************************)
\* s.endsWith(t)
EndsWith(s, t) ==
  Len(t) <= Len(s) /\ SubSeq(s, Len(s) - Len(t) + 1, Len(s)) = t
\* s.startsWith(t)
StartsWith(s, t) == Len(t) <= Len(s) /\ SubSeq(s, 1, Len(t)) = t
\* s.includes(t)
Includes(s, t) ==
  \E i \in 1..(Len(s) - Len(t) + 1) : SubSeq(s, i, i + Len(t) - 1) = t

IsDigit(c) == c \in {"0", "1", "2", "3", "4", "5", "6", "7", "8", "9"}
\* \s of a regular expression
IsSpace(c) == c \in {" ", "\t", "\n"}
CharAt(s, i) == SubSeq(s, i, i)

\* The end of the longest run of digits (of white space) that starts at i:
\* i - 1 when there is none.  The patterns below follow each \d+ and \s+ by a
\* character outside the class, so a match always takes the whole run.
DigitRunEnd(s, i) ==
  CHOOSE j \in (i - 1)..Len(s) :
    /\ \A m \in i..j : IsDigit(CharAt(s, m))
    /\ j = Len(s) \/ ~IsDigit(CharAt(s, j + 1))
SpaceRunEnd(s, i) ==
  CHOOSE j \in (i - 1)..Len(s) :
    /\ \A m \in i..j : IsSpace(CharAt(s, m))
    /\ j = Len(s) \/ ~IsSpace(CharAt(s, j + 1))

\* s.replace(t, r) with a string pattern: the first occurrence only.
ReplaceFirst(s, t, r) ==
  IF ~Includes(s, t) THEN s
  ELSE LET i == CHOOSE i \in 1..(Len(s) - Len(t) + 1) :
                  /\ SubSeq(s, i, i + Len(t) - 1) = t
                  /\ \A j \in 1..(i - 1) : SubSeq(s, j, j + Len(t) - 1) # t
       IN SubSeq(s, 1, i - 1) \o r \o SubSeq(s, i + Len(t), Len(s))

\* s.replace(/\s+/g, r): every run of white space becomes one r.
RECURSIVE ReplaceSpaceRuns(_, _)
ReplaceSpaceRuns(s, r) ==
  IF s = "" THEN ""
  ELSE IF IsSpace(CharAt(s, 1))
    THEN r \o ReplaceSpaceRuns(SubSeq(s, SpaceRunEnd(s, 1) + 1, Len(s)), r)
  ELSE CharAt(s, 1) \o ReplaceSpaceRuns(SubSeq(s, 2, Len(s)), r)

\* array.includes(x)
Contains(seq, x) == \E i \in 1..Len(seq) : seq[i] = x

\* The elements of a sequence.
Elems(seq) == {seq[i] : i \in 1..Len(seq)}

\* The concatenation of a sequence of sequences.
RECURSIVE Flatten(_)
Flatten(seqs) ==
  IF seqs = <<>> THEN <<>> ELSE Head(seqs) \o Flatten(Tail(seqs))

(***************************************************************************)
(* build/merge.ts                                                          *)
(***************************************************************************)
\* [...x] for the values the merge can meet, as an array: an array spreads
\* to its elements, a string to its characters, anything else is not
\* iterable and the spread throws.
Spread(x) ==
  CASE x.t = "arr" -> x
    [] x.t = "str" -> Arr([i \in 1..Len(x.v) |-> Str(SubSeq(x.v, i, i))])
    [] OTHER -> Thrown("TypeError")

\* `(result[key] as any[]) || []` followed by the spread.
SpreadOrEmpty(x) == IF Truthy(x) THEN Spread(x) ELSE Arr(<<>>)

\* SameValueZero on JSON values: primitives by value; arrays and objects are
\* distinct references, never equal to another element.
IsPrimitive(x) == x.t \in {"null", "num", "str", "bool"}

\* [...new Set(seq)]: insertion order, later duplicates dropped.
RECURSIVE SetSpread(_)
SetSpread(seq) ==
  IF seq = <<>> THEN <<>>
  ELSE LET init == SubSeq(seq, 1, Len(seq) - 1)
           last == seq[Len(seq)]
       IN IF IsPrimitive(last) /\ \E i \in 1..Len(init) : init[i] = last
          THEN SetSpread(init)
          ELSE Append(SetSpread(init), last)

\* const { arrayStrategy = "replace" } = options
ArrayStrategyOf(options) ==
  IF "arrayStrategy" \in DOMAIN options THEN options["arrayStrategy"] ELSE "replace"

\* MergeArray with the concatenation of "merge" and "unique" turned round
\* (source first).
MergeArraySourceFirst(targetVal, sourceVal, arrayStrategy) ==
  CASE arrayStrategy = "replace" -> Arr(sourceVal.v)
    [] arrayStrategy = "merge" ->
         LET old == SpreadOrEmpty(targetVal)
         IN IF IsThrown(old) THEN old ELSE Arr(sourceVal.v \o old.v)
    [] arrayStrategy = "unique" ->
         LET old == SpreadOrEmpty(targetVal)
         IN IF IsThrown(old) THEN old
            ELSE Arr(SetSpread(sourceVal.v \o old.v))

\* The value deepMerge stores under `key` for an array source value.
MergeArray(targetVal, sourceVal, arrayStrategy) ==
  CASE arrayStrategy = "replace" -> Arr(sourceVal.v)
    [] arrayStrategy = "merge" ->
         LET old == SpreadOrEmpty(targetVal)
         IN IF IsThrown(old) THEN old ELSE Arr(old.v \o sourceVal.v)
    [] arrayStrategy = "unique" ->
         LET old == SpreadOrEmpty(targetVal)
         IN IF IsThrown(old) THEN old
            ELSE Arr(SetSpread(old.v \o sourceVal.v))

\* deepMerge that never recurses: a nested source object replaces the
\* target's.
deepMergeShallow(target, source, options) ==
  LET arrayStrategy == ArrayStrategyOf(options)
      overridden == {key \in DOMAIN source.v :
                       ~IsNull(source.v[key]) /\ ~IsUndefined(source.v[key])}
      Value(key) ==
        IF key \notin overridden THEN target.v[key]
        ELSE IF IsArr(source.v[key])
          THEN MergeArray(Get(target, key), source.v[key], arrayStrategy)
        ELSE source.v[key]
      keys == DOMAIN target.v \cup overridden
  IN IF \E key \in keys : IsThrown(Value(key))
     THEN Thrown("TypeError")
     ELSE Obj([key \in keys |-> Value(key)])

\* deepMerge without the null test: a null in source overrides.
deepMergeNullOverrides(target, source, options) ==
  LET arrayStrategy == ArrayStrategyOf(options)
      Value(key) ==
        IF key \notin DOMAIN source.v THEN target.v[key]
        ELSE IF IsArr(source.v[key])
          THEN MergeArray(Get(target, key), source.v[key], arrayStrategy)
        ELSE source.v[key]
      keys == DOMAIN target.v \cup DOMAIN source.v
  IN IF \E key \in keys : IsThrown(Value(key))
     THEN Thrown("TypeError")
     ELSE Obj([key \in keys |-> Value(key)])

\* deepMerge(target, source, options): target and source are objects.  The
\* result is the merged object, or Thrown when a spread inside it threw.
RECURSIVE deepMerge(_, _, _)
deepMerge(target, source, options) ==
  LET arrayStrategy == ArrayStrategyOf(options)
      overridden == {key \in DOMAIN source.v :
                       ~IsNull(source.v[key]) /\ ~IsUndefined(source.v[key])}
      Value(key) ==
        IF key \notin overridden THEN target.v[key]
        ELSE IF IsArr(source.v[key])
          THEN MergeArray(Get(target, key), source.v[key], arrayStrategy)
        ELSE IF IsObj(source.v[key]) /\ IsObj(Get(target, key))
          THEN deepMerge(target.v[key], source.v[key], options)
        ELSE source.v[key]
      keys == DOMAIN target.v \cup overridden
  IN IF \E key \in keys : IsThrown(Value(key))
     THEN Thrown("TypeError")
     ELSE Obj([key \in keys |-> Value(key)])

\* mergeAll(...objects): the fold of deepMerge over the objects that are
\* not null or undefined, from {}.
RECURSIVE mergeAll(_)
mergeAll(objects) ==
  IF objects = <<>> THEN EmptyObj
  ELSE LET init == mergeAll(SubSeq(objects, 1, Len(objects) - 1))
           last == objects[Len(objects)]
       IN IF IsThrown(init) \/ ~Truthy(last) THEN init
          ELSE deepMerge(init, last, EmptyFn)

(***************************************************************************)
(* build/merge.ts on a memory of objects.  An object lives at an address   *)
(* of the memory; a field holds a primitive, an array, or the reference to *)
(* the object it points to, so that two fields can share one object and an *)
(* assignment to a field changes the one object it is made on.  Arrays     *)
(* are held by value: no statement of the program assigns into an array.   *)
(***************************************************************************)
Ref(a) == [t |-> "ref", v |-> a]
IsRef(x) == x.t = "ref"
NoRef == Ref(0)

\* The object literal of a JSON value in memory: the memory with its objects
\* added, and the field value that stands for it.
RECURSIVE Alloc(_, _), AllocKeys(_, _, _, _)
Alloc(heap, x) ==
  IF ~IsObj(x) THEN [heap |-> heap, cell |-> x]
  ELSE LET r == AllocKeys(heap, x, DOMAIN x.v, EmptyFn)
       IN [heap |-> Append(r.heap, r.fields), cell |-> Ref(Len(r.heap) + 1)]
AllocKeys(heap, x, keys, fields) ==
  IF keys = {} THEN [heap |-> heap, fields |-> fields]
  ELSE LET key == CHOOSE k \in keys : TRUE
           a == Alloc(heap, x.v[key])
       IN AllocKeys(a.heap, x, keys \ {key}, (key :> a.cell) @@ fields)

\* The JSON value a field value stands for.
RECURSIVE Deref(_, _)
Deref(heap, cell) ==
  IF IsRef(cell)
  THEN Obj([key \in DOMAIN heap[cell.v] |-> Deref(heap, heap[cell.v][key])])
  ELSE cell

\* obj[key], and the value of a field as the array branch of deepMerge
\* sees it: an object is truthy and not iterable.
HeapGet(fields, key) == IF key \in DOMAIN fields THEN fields[key] ELSE Undefined
AsValue(cell) == IF IsRef(cell) THEN EmptyObj ELSE cell
\* obj[key] = cell on the object at address a
HeapSet(heap, a, key, cell) == [heap EXCEPT ![a] = (key :> cell) @@ heap[a]]

\* result = target: no copy is made.
spreadAlias(heap, t) == [heap |-> heap, ref |-> t]

\* const result = { ...target }: a new object with the fields of target.
spreadCopy(heap, t) == [heap |-> Append(heap, heap[t]), ref |-> Len(heap) + 1]

\* deepMerge(target, source, options) on the objects at addresses t and s:
\* the memory after the call, the address of the result, and whether a
\* spread threw.  heapMergeKeys is the for-in loop over the keys left.
RECURSIVE heapDeepMerge(_, _, _, _), heapMergeKeys(_, _, _, _, _)
heapMergeKeys(heap, r, s, keys, options) ==
  IF keys = {} THEN [heap |-> heap, ref |-> r, thrown |-> FALSE]
  ELSE LET key == CHOOSE k \in keys : TRUE
           rest == keys \ {key}
           sv == HeapGet(heap[s], key)
           tv == HeapGet(heap[r], key)
           array == MergeArray(AsValue(tv), sv, ArrayStrategyOf(options))
           nested == heapDeepMerge(heap, tv.v, sv.v, options)
       IN IF IsNull(sv) \/ IsUndefined(sv)
            THEN heapMergeKeys(heap, r, s, rest, options)
          ELSE IF IsArr(sv)
            THEN IF IsThrown(array)
                 THEN [heap |-> heap, ref |-> r, thrown |-> TRUE]
                 ELSE heapMergeKeys(HeapSet(heap, r, key, array), r, s, rest, options)
          ELSE IF IsRef(sv) /\ IsRef(tv)
            THEN IF nested.thrown
                 THEN [heap |-> nested.heap, ref |-> r, thrown |-> TRUE]
                 ELSE heapMergeKeys(HeapSet(nested.heap, r, key, Ref(nested.ref)),
                                    r, s, rest, options)
          ELSE heapMergeKeys(HeapSet(heap, r, key, sv), r, s, rest, options)
heapDeepMerge(heap, t, s, options) ==
  LET result == spreadCopy(heap, t)
  IN heapMergeKeys(result.heap, result.ref, s, DOMAIN result.heap[s], options)

\* mergeAll(...objects) on the memory, from `let result = {}` at address r.
RECURSIVE heapMergeAllFrom(_, _, _)
heapMergeAllFrom(heap, r, objects) ==
  IF objects = <<>> THEN [heap |-> heap, ref |-> r, thrown |-> FALSE]
  ELSE IF ~IsRef(Head(objects)) THEN heapMergeAllFrom(heap, r, Tail(objects))
  ELSE LET m == heapDeepMerge(heap, r, Head(objects).v, EmptyFn)
       IN IF m.thrown THEN m ELSE heapMergeAllFrom(m.heap, m.ref, Tail(objects))
heapMergeAll(heap, objects) ==
  heapMergeAllFrom(Append(heap, EmptyFn), Len(heap) + 1, objects)

(***************************************************************************)
(* The state.                                                              *)
(***************************************************************************)
VARIABLES
  \* the files of the material being generated
  disk,
  \* generateAllConfigs of the JSON generator: its slicer argument, its
  \* position, the identifiers
  \* to generate, the index of the current one, the artifacts so far, and
  \* generateConfig's locals
  bSlicer, bPc, bCompat, bIdx, bResults, bConfig, bOverrides, bError,
  \* the objects of generateConfig in memory (the loaded base config, the
  \* loaded overrides, config, the configs pushed to results), and the calls
  \* of generateAllConfigs so far with what the first one came to
  bHeap, bCalls,
  \* one call of deepMerge
  mTarget, mSource, mOptions, mResult, mPc,
  \* deepMerge and mergeAll in memory: the arguments as values, the objects
  \* of the memory by address, the addresses of the arguments and of the
  \* results, the position
  hTarget, hSource, hOptions, hHeap, hRefs, hPc,
  \* two calls of detectFormat with the same path and two configs
  dConfig, dOther, dPath, dResult, dResultOther, dPc,
  \* the INI generator: the exported function called (generateAllConfigs, or
  \* generateConfig directly), the printer and nozzle options,
  \* its position, generateConfig's locals, and what it returns
  pEntry, pPrinter, pNozzle, pPc, pConfig, pOverrides, pResults, pError,
  \* the same for the INI generator
  pHeap, pCalls,
  \* one call of validateBambuConfig: its argument, its result
  vConfig, vResult, vPc,
  \* validateAll: the materials directory, the index of the material of the
  \* current iteration, allErrors, allWarnings, and the result
  aTree, aIdx, aErrors, aWarnings, aResult, aPc,
  \* a run of scripts/build.ts: materials/, config/printers.json, the
  \* command line, the file system it writes to, the indexes of the current
  \* material and slicer, its position, what console.error has printed,
  \* slicerResults' keys, and the calls of saveConfig: the config saved, and
  \* the path returned
  tree, printersJson, options, fsys, mIdx, sIdx, buildPc, reports, slicerResults, saved,
  \* one call of the JSON generateConfig with its three override loads in
  \* flight: its position, the loads settled and their order, the state of
  \* the Promise.all, and generateConfig's locals
  loads

callVars == <<mTarget, mSource, mOptions, mResult, mPc>>
heapVars == <<hTarget, hSource, hOptions, hHeap, hRefs, hPc>>
mergeVars == <<callVars, heapVars, loads>>
detectVars == <<dConfig, dOther, dPath, dResult, dResultOther, dPc>>
bambuVars ==
  <<bSlicer, bPc, bCompat, bIdx, bResults, bConfig, bOverrides, bError, bHeap, bCalls>>
prusaVars ==
  <<pEntry, pPrinter, pNozzle, pPc, pConfig, pOverrides, pResults, pError, pHeap, pCalls>>
validateVars == <<vConfig, vResult, vPc>>
allVars == <<aTree, aIdx, aErrors, aWarnings, aResult, aPc>>
buildVars ==
  <<tree, printersJson, options, fsys, mIdx, sIdx, buildPc, reports, slicerResults, saved>>
vars ==
  <<mergeVars, detectVars, disk, bambuVars, prusaVars, validateVars, allVars, buildVars>>

(***************************************************************************)
(* The file system the loaders read, for one material and one slicer.      *)
(* A file is absent, readable with parsed content c, present with text     *)
(* that does not parse, or present and unreadable (EPERM, or another I/O   *)
(* error such as EACCES).                                                  *)
(***************************************************************************)
Absent == [s |-> "absent", c |-> Null]
File(c) == [s |-> "ok", c |-> c]
Malformed == [s |-> "malformed", c |-> Null]
Eperm == [s |-> "eperm", c |-> Null]
Eio == [s |-> "eio", c |-> Null]

\* The names of the materials, in the order getAllMaterials lists them, and
\* the material of the current iteration of the build (the first one when a
\* generator is called on its own).
MaterialNames == <<"pla", "petg">>
material == IF mIdx \in 1..Len(MaterialNames) THEN MaterialNames[mIdx] ELSE "none"
version == "v1.2.0"
materialsDir == "materials/"

(***************************************************************************)
(* build/loaders.ts                                                        *)
(***************************************************************************)
\* loadJSON(filePath): the parsed content, null for ENOENT and EPERM, and a
\* thrown Error for every other failure.
loadJSON(file) ==
  CASE file.s = "ok" -> file.c
    [] file.s \in {"absent", "eperm"} -> Null
    [] OTHER -> Thrown("Failed to load JSON file")

\* What ini.parse makes of text that is not JSON: a key per line.
IniOfAnyText == Obj("{not json" :> Bool(TRUE))
\* loadINI(filePath): ini.parse accepts any text, so only I/O fails.
loadINI(file) ==
  CASE file.s = "ok" -> file.c
    [] file.s = "malformed" -> IniOfAnyText
    [] file.s \in {"absent", "eperm"} -> Null
    [] OTHER -> Thrown("Failed to load INI file")

\* fs.access(path) succeeds when the file exists.
Accessible(file) == file.s # "absent"

iniPath(slicer) == materialsDir \o material \o "/" \o slicer \o "/base.ini"
jsonPath(slicer) == materialsDir \o material \o "/" \o slicer \o "/base.json"

\* loadBaseConfig(material, slicer): base.ini first, then base.json; every
\* exception of the INI branch leads to the JSON branch and every exception
\* of the JSON branch to {config: null, filePath: null}.
loadBaseConfig(dsk, slicer) ==
  LET jsonBranch ==
        IF Accessible(dsk.baseJson) /\ ~IsThrown(loadJSON(dsk.baseJson))
        THEN [config |-> loadJSON(dsk.baseJson), filePath |-> Str(jsonPath(slicer))]
        ELSE [config |-> Null, filePath |-> Null]
  IN IF Accessible(dsk.baseIni) /\ ~IsThrown(loadINI(dsk.baseIni))
     THEN [config |-> loadINI(dsk.baseIni), filePath |-> Str(iniPath(slicer))]
     ELSE jsonBranch

loadPrinterOverrides(dsk) == loadJSON(dsk.printers)
loadNozzleOverrides(dsk) == loadJSON(dsk.nozzles)

\* The file name loadCombinationOverrides reads in combinations/.
combinationFileName(printer, nozzle) == printer \o "-" \o nozzle \o ".json"

loadCombinationOverrides(dsk, printer, nozzle) ==
  LET name == combinationFileName(printer, nozzle)
  IN loadJSON(IF name \in DOMAIN dsk.combinations
              THEN dsk.combinations[name] ELSE Absent)

\* loadAllOverrides: Promise.all of the three loads; it rejects when one of
\* them does.
loadAllOverrides(dsk, printer, nozzle) ==
  LET p == loadPrinterOverrides(dsk)
      n == loadNozzleOverrides(dsk)
      c == loadCombinationOverrides(dsk, printer, nozzle)
  IN IF IsThrown(p) THEN p
     ELSE IF IsThrown(n) THEN n
     ELSE IF IsThrown(c) THEN c
     ELSE Obj([k \in {"printers", "nozzles", "combination"} |->
                CASE k = "printers" -> p [] k = "nozzles" -> n [] OTHER -> c])

\* The three loads Promise.all is given, by the key their value gets.
LoadNames == {"printers", "nozzles", "combination"}
overrideLoad(dsk, name, printer, nozzle) ==
  CASE name = "printers" -> loadPrinterOverrides(dsk)
    [] name = "nozzles" -> loadNozzleOverrides(dsk)
    [] OTHER -> loadCombinationOverrides(dsk, printer, nozzle)

\* The values taken in the order in which the loads settled.
valuesInCompletionOrder(settled, order) ==
  Obj([k \in LoadNames |->
        CASE k = "printers" -> settled[order[1]]
          [] k = "nozzles" -> settled[order[2]]
          [] OTHER -> settled[order[3]]])

\* const [printerOverrides, nozzleOverrides, combinationOverrides] = await
\* Promise.all([..]): the values by the position of their promise, whatever
\* the order in which they settled.
promiseAllValues(settled, order) == Obj([k \in LoadNames |-> settled[k]])

\* The state of Promise.all(..) once one more promise has settled: it
\* rejects with the first rejection and fulfils when all have fulfilled.
promiseAll(promise, settled, rejection) ==
  IF promise # "pending" THEN promise
  ELSE IF IsThrown(rejection) THEN "rejected"
  ELSE IF DOMAIN settled = LoadNames THEN "fulfilled"
  ELSE "pending"

(***************************************************************************)
(* build/generators/bambuslicer.ts                                         *)
(***************************************************************************)
\* Whether s from position i to its end is  \d+\.\d+\s+nozzle .
NozzleSuffixAt(s, i) ==
  LET d1 == DigitRunEnd(s, i)
      d2 == DigitRunEnd(s, d1 + 2)
      sp == SpaceRunEnd(s, d2 + 1)
  IN /\ d1 >= i
     /\ d1 + 1 <= Len(s) /\ CharAt(s, d1 + 1) = "."
     /\ d2 >= d1 + 2
     /\ sp >= d2 + 1
     /\ SubSeq(s, sp + 1, Len(s)) = "nozzle"

\* Whether s from position i to its end is  \s+\d+\.\d+\s+nozzle .
SpacedNozzleSuffixAt(s, i) ==
  LET sp == SpaceRunEnd(s, i)
  IN sp >= i /\ NozzleSuffixAt(s, sp + 1)

\* printerString.replace(/\s+\d+\.\d+\s+nozzle$/, ""): the leftmost match
\* is cut off.
extractPrinterName(printerString) ==
  LET starts == {i \in 1..Len(printerString) : SpacedNozzleSuffixAt(printerString, i)}
  IN IF starts = {} THEN printerString
     ELSE SubSeq(printerString, 1, (CHOOSE i \in starts : \A j \in starts : i <= j) - 1)

\* extractNozzleSize that also takes a whole number before " nozzle".
extractNozzleSizeWhole(printerString) ==
  LET starts == {i \in 1..Len(printerString) :
                   /\ DigitRunEnd(printerString, i) >= i
                   /\ \/ NozzleSuffixAt(printerString, i)
                      \/ SubSeq(printerString, DigitRunEnd(printerString, i) + 1,
                                Len(printerString)) = " nozzle"}
      first == CHOOSE i \in starts : \A j \in starts : i <= j
  IN IF starts = {} THEN Null
     ELSE IF NozzleSuffixAt(printerString, first)
       THEN Str(SubSeq(printerString, first,
                       DigitRunEnd(printerString, DigitRunEnd(printerString, first) + 2)))
     ELSE Str(SubSeq(printerString, first, DigitRunEnd(printerString, first)))

\* printerString.match(/(\d+\.\d+)\s+nozzle$/): group 1 of the leftmost
\* match, or null.
extractNozzleSize(printerString) ==
  LET starts == {i \in 1..Len(printerString) : NozzleSuffixAt(printerString, i)}
      first == CHOOSE i \in starts : \A j \in starts : i <= j
  IN IF starts = {} THEN Null
     ELSE Str(SubSeq(printerString, first,
                     DigitRunEnd(printerString, DigitRunEnd(printerString, first) + 2)))

\* JSON.parse(JSON.stringify(x)): keys whose value is undefined are dropped,
\* an undefined array element becomes null.
RECURSIVE JsonClone(_)
JsonClone(x) ==
  CASE IsObj(x) ->
         Obj([k \in {k \in DOMAIN x.v : ~IsUndefined(x.v[k])} |-> JsonClone(x.v[k])])
    [] IsArr(x) ->
         Arr([i \in 1..Len(x.v) |->
               IF IsUndefined(x.v[i]) THEN Null ELSE JsonClone(x.v[i])])
    [] OTHER -> x

\* overrides?.printers?.[printer] and overrides?.nozzles?.[nozzle]
Lookup(overrides, layer, key) ==
  IF IsObj(Get(overrides, layer)) THEN Get(Get(overrides, layer), key)
  ELSE Undefined

applyPrinterOverrides(config, overrides, printer) ==
  IF ~Truthy(Lookup(overrides, "printers", printer)) THEN config
  ELSE deepMerge(config, Lookup(overrides, "printers", printer), EmptyFn)

\* applyNozzleOverrides with the arguments of deepMerge exchanged: the config
\* so far wins over the nozzle fragment.
applyNozzleOverridesUnder(config, overrides, nozzle) ==
  IF ~Truthy(Lookup(overrides, "nozzles", nozzle)) THEN config
  ELSE deepMerge(Lookup(overrides, "nozzles", nozzle), config, EmptyFn)

applyNozzleOverrides(config, overrides, nozzle) ==
  IF ~Truthy(Lookup(overrides, "nozzles", nozzle)) THEN config
  ELSE deepMerge(config, Lookup(overrides, "nozzles", nozzle), EmptyFn)

applyCombinationOverrides(config, overrides, printer, nozzle) ==
  IF ~Truthy(Get(overrides, "combination")) THEN config
  ELSE deepMerge(config, Get(overrides, "combination"), EmptyFn)

\* obj with obj[key] = value
Put(obj, key, value) ==
  Obj([k \in DOMAIN obj.v \cup {key} |-> IF k = key THEN value ELSE obj.v[k]])

\* postProcess that keeps a compatible_printers list the merge produced and
\* only adds this printer to it.
postProcessAppends(config, printer, ver) ==
  LET old == Get(config, "compatible_printers")
      only == Put(config, "compatible_printers",
                  IF IsArr(old) THEN Arr(Append(old.v, Str(printer)))
                  ELSE Arr(<<Str(printer)>>))
  IN IF Truthy(Get(only, "version")) THEN Put(only, "version", Str(ver)) ELSE only

\* The end of generateConfig: compatible_printers is set to this printer
\* alone, version is set when the merged config has a truthy one.
postProcess(config, printer, ver) ==
  LET only == Put(config, "compatible_printers", Arr(<<Str(printer)>>))
  IN IF Truthy(Get(only, "version")) THEN Put(only, "version", Str(ver)) ELSE only

\* The identifiers generateAllConfigs derives from config/printers.json, in
\* the order of the table: one per nozzle of each printer that lists
\* "bambuslicer".
compatiblePrintersOf(printers) ==
  Flatten([i \in 1..Len(printers) |->
    IF Contains(printers[i].slicers, "bambuslicer")
    THEN [j \in 1..Len(printers[i].nozzles) |->
           printers[i].name \o " "
             \o ReplaceFirst(printers[i].nozzles[j], "mm", "") \o " nozzle"]
    ELSE <<>>])

bambuFilename(printerName, nozzleSize) ==
  "addnorth_" \o material \o "_" \o ReplaceSpaceRuns(printerName, "-")
    \o "_" \o nozzleSize \o "mm_" \o version \o ".json"

(***************************************************************************)
(* Inputs of the merge engine.                                             *)
(***************************************************************************)
MergeKeys == {"a", "b"}

\* All sequences over S of length at most n.
SeqsUpTo(S, n) == UNION {[1..m -> S] : m \in 0..n}

FlatArrays == {Arr(s) : s \in SeqsUpTo({Num(i) : i \in 1..MaxElem}, MaxArrLen)}

\* target and source of the flat family: one key, both arrays (or the key
\* absent, or a non-array under it).
FlatValues ==
  FlatArrays \cup {Null, Undefined, Num(0), Num(1), Str("ab"), EmptyObj}
FlatObjs == {EmptyObj} \cup {Obj([k \in {"a"} |-> x]) : x \in FlatValues}

Leaves == {Null, Num(1), Arr(<<Num(1), Num(2)>>), Arr(<<Num(2), Num(3)>>)}
\* The values under key "b", which is never a nested object.
LeavesB == {Null, Num(1), Arr(<<Num(2), Num(3)>>)}

\* Objects over MergeKeys, each key absent or present; nested objects sit
\* under key "a" only, down to depth d.
RECURSIVE ObjsOfDepth(_)
ObjsOfDepth(d) ==
  LET underA == IF d <= 1 THEN Leaves ELSE Leaves \cup ObjsOfDepth(d - 1)
      Pick(ks, x, y) == [k \in ks |-> IF k = "a" THEN x ELSE y]
  IN {Obj(Pick(ks, x, y)) :
        ks \in SUBSET MergeKeys, x \in underA, y \in LeavesB}

NestedObjs == ObjsOfDepth(MaxDepth)

\* The nested objects given to deepMerge in memory: as ObjsOfDepth, with
\* key "b" absent or the number 1.
RECURSIVE HeapObjsOfDepth(_)
HeapObjsOfDepth(d) ==
  LET underA == IF d <= 1 THEN Leaves ELSE Leaves \cup HeapObjsOfDepth(d - 1)
  IN {Obj([k \in ks |-> IF k = "a" THEN x ELSE Num(1)]) :
        ks \in SUBSET MergeKeys, x \in underA}
HeapObjs == HeapObjsOfDepth(MaxDepth)

MergeOptionsSet ==
  {EmptyFn} \cup {[k \in {"arrayStrategy"} |-> s] : s \in {"replace", "merge", "unique"}}


(***************************************************************************)
(* build/generators/registry.ts                                            *)
(***************************************************************************)
\* The absent optional argument `filePath?: string`.
NoPath == Undefined

\* detectFormatFromPath(filePath): "ini", "json" or null.
detectFormatFromPath(filePath) ==
  IF EndsWith(filePath, ".ini") THEN "ini"
  ELSE IF EndsWith(filePath, ".json") THEN "json"
  ELSE "null"

\* The content heuristic of detectFormat (the part after the path test).
detectFormatFromContent(baseConfig) ==
  IF ~Truthy(baseConfig) \/ ~(IsObj(baseConfig) \/ IsArr(baseConfig)) THEN "null"
  ELSE IF IsObj(baseConfig) /\ \E key \in DOMAIN baseConfig.v :
            Includes(key, "vendor") \/ Includes(key, "filament:")
    THEN "ini"
  ELSE IF IsObj(baseConfig) /\ (\/ Truthy(Get(baseConfig, "compatible_printers"))
                               \/ Truthy(Get(baseConfig, "filament_settings_id"))
                               \/ Truthy(Get(baseConfig, "filament_type")))
    THEN "json"
  ELSE IF IsObj(baseConfig) THEN "json"
  ELSE "null"

\* detectFormat that asks the content first and the path last.
detectFormatContentFirst(baseConfig, filePath) ==
  IF detectFormatFromContent(baseConfig) # "null"
  THEN detectFormatFromContent(baseConfig)
  ELSE IF Truthy(filePath) THEN detectFormatFromPath(filePath.v) ELSE "null"

\* detectFormat(baseConfig, filePath?); filePath is a Str or NoPath.
detectFormat(baseConfig, filePath) ==
  IF Truthy(filePath) /\ detectFormatFromPath(filePath.v) # "null"
  THEN detectFormatFromPath(filePath.v)
  ELSE detectFormatFromContent(baseConfig)

(***************************************************************************)
(* Inputs of detectFormat.                                                 *)
(***************************************************************************)
DetectKeys ==
  {"vendor", "filament:PLA", "my_vendors", "old filament:PLA",
   "compatible_printers", "filament_settings_id", "filament_type", "notes"}
\* Parsed base configs, and values that are no config at all.
DetectConfigs ==
  {Obj([k \in ks |-> IF k \in {"compatible_printers", "filament_settings_id",
                                "filament_type"}
                     THEN Arr(<<Str("PLA")>>) ELSE EmptyObj]) :
     ks \in {ks \in SUBSET DetectKeys : Cardinality(ks) <= 2}}
  \cup {Null, Num(0), Num(1), Str("vendor"), Bool(TRUE), Arr(<<>>),
        Arr(<<Str("vendor")>>)}
DetectPaths ==
  {NoPath, Str(""), Str("base.ini"), Str("base.json"),
   Str("materials/pla/prusaslicer/base.ini"),
   Str("materials/pla/bambuslicer/base.json"),
   Str("base.ini.bak"), Str("base.json5"), Str("base.txt"), Str("base")}


(***************************************************************************)
(* Inputs of the generators: base configs, override fragments, the files   *)
(* of one material and the printer capability table config/printers.json.  *)
(***************************************************************************)
StrArr(seq) == Arr([i \in 1..Len(seq) |-> Str(seq[i])])
NumArr(seq) == Arr([i \in 1..Len(seq) |-> Num(seq[i])])

\* The base of the round-trip scenario.
RoundTripBase ==
  Obj(("compatible_printers" :> StrArr(<<"X">>)) @@ ("filament_type" :> StrArr(<<"PLA">>)))
FullBase ==
  Obj(("compatible_printers" :> StrArr(<<"X 0.4 nozzle", "Y 0.4 nozzle">>))
      @@ ("filament_type" :> StrArr(<<"PLA">>))
      @@ ("filament_settings_id" :> StrArr(<<"add:north PLA">>))
      @@ ("version" :> Str("0.0.0"))
      @@ ("perimeter_speed" :> Num(60))
      @@ ("nozzle_temperature" :> NumArr(<<190, 190>>))
      @@ ("retraction" :> Obj(("length" :> Num(8)) @@ ("speed" :> Num(30)))))
\* No version, no compatible_printers.
PlainBase ==
  Obj(("filament_type" :> StrArr(<<"PLA">>))
      @@ ("perimeter_speed" :> Num(60))
      @@ ("retraction" :> Num(1)))
BambuBases == {RoundTripBase, FullBase, PlainBase}

PrinterFragments ==
  << Obj("nozzle_temperature" :> NumArr(<<200, 200>>)),
     Obj(("perimeter_speed" :> Num(10))
         @@ ("retraction" :> Obj("length" :> Num(1)))
         @@ ("nozzle_temperature" :> NumArr(<<201>>))),
     Obj(("compatible_printers" :> StrArr(<<"Other 0.4 nozzle", "X 0.4 nozzle">>))
         @@ ("version" :> Str("p"))) >>
NozzleFragments ==
  << Obj("perimeter_speed" :> Num(50)),
     Obj(("perimeter_speed" :> Num(20))
         @@ ("retraction" :> Obj(("length" :> Num(2)) @@ ("speed" :> Num(2))))
         @@ ("nozzle_temperature" :> Null)),
     Obj(("nozzle_temperature" :> NumArr(<<210>>))
         @@ ("retraction" :> Obj("speed" :> Num(22)))) >>
CombinationFragments ==
  << Obj("perimeter_speed" :> Num(30)),
     Obj(("retraction" :> Obj("speed" :> Num(3)))
         @@ ("nozzle_temperature" :> NumArr(<<230, 230>>))
         @@ ("compatible_printers" :> StrArr(<<"Z">>))),
     Obj(("perimeter_speed" :> Null) @@ ("retraction" :> Num(0))) >>

\* printers.json of the material: printer name -> fragment.
PrinterFiles ==
  {Absent, Malformed}
  \cup {File(Obj("X" :> PrinterFragments[i])) : i \in 1..3}
  \cup {File(Obj("Bambu Lab X1" :> PrinterFragments[2])),
        File(Obj(("X" :> PrinterFragments[1]) @@ ("Bambu Lab X1" :> PrinterFragments[2])))}
\* nozzles.json of the material: nozzle size -> fragment, keyed as the docs
\* write it ("0.4mm") or as the bare number ("0.4").
NozzleFiles ==
  {Absent, Malformed}
  \cup {File(Obj("0.4" :> NozzleFragments[i])) : i \in 1..3}
  \cup {File(Obj("0.4mm" :> NozzleFragments[1])),
        File(Obj(("0.4mm" :> NozzleFragments[2]) @@ ("0.6" :> NozzleFragments[3])))}
\* combinations/: file name -> file.
CombinationDirs ==
  {EmptyFn, "X-0.4.json" :> Malformed}
  \cup {"X-0.4.json" :> File(CombinationFragments[i]) : i \in 1..3}
  \cup {"X-0.4mm.json" :> File(CombinationFragments[1]),
        "Bambu-Lab-X1-0.4mm.json" :> File(CombinationFragments[1]),
        "Bambu Lab X1-0.4.json" :> File(CombinationFragments[2])}

Printer(name, slicers, nozzles) ==
  [name |-> name, slicers |-> slicers, nozzles |-> nozzles]
\* config/printers.json, its printers in file order.
PrinterTables ==
  { <<Printer("X", <<"bambuslicer">>, <<"0.4mm">>)>>,
    <<Printer("X", <<"bambuslicer">>, <<"0.4mm">>),
      Printer("Bambu Lab X1", <<"bambuslicer">>, <<"0.4mm">>)>>,
    <<Printer("Bambu Lab X1", <<"prusaslicer", "bambuslicer">>, <<"0.4mm", "0.6mm">>),
      Printer("Prusa MK4", <<"prusaslicer">>, <<"0.4mm">>)>>,
    <<Printer("X", <<"bambuslicer">>, <<"0.4mm", "1mm">>)>> }

Disk(baseIni, baseJson, printers, nozzles, combinations, table) ==
  [baseIni |-> baseIni, baseJson |-> baseJson, printers |-> printers,
   nozzles |-> nozzles, combinations |-> combinations, printersConfig |-> table]

BambuDisks ==
  {Disk(Absent, bj, pf, nf, cd, tb) :
     bj \in {Absent, Malformed} \cup {File(b) : b \in BambuBases},
     pf \in PrinterFiles, nf \in NozzleFiles, cd \in CombinationDirs,
     tb \in PrinterTables}
IdleDisk == Disk(Absent, Absent, Absent, Absent, EmptyFn, <<>>)

\* Tables of config/printers.json whose keys differ in their separators only,
\* next to tables whose keys differ in their letters.
NameTables ==
  { <<Printer("A B", <<"bambuslicer">>, <<"0.4mm">>),
      Printer("A-B", <<"bambuslicer">>, <<"0.4mm">>)>>,
    <<Printer("A B", <<"bambuslicer">>, <<"0.4mm", "0.6mm">>),
      Printer("A  B", <<"bambuslicer">>, <<"0.6mm">>)>>,
    <<Printer("A B", <<"bambuslicer">>, <<"0.4mm", "0.6mm">>),
      Printer("X", <<"bambuslicer">>, <<"0.4mm">>)>>,
    <<Printer("X", <<"bambuslicer">>, <<"0.4mm">>),
      Printer("A-B", <<"prusaslicer">>, <<"0.4mm">>)>> }
NamesDisks ==
  {Disk(Absent, bj, pf, nf, EmptyFn, tb) :
     bj \in {Absent} \cup {File(b) : b \in BambuBases},
     pf \in PrinterFiles, nf \in NozzleFiles, tb \in NameTables}

(***************************************************************************)
(* build/generators/prusaslicer.ts                                         *)
(***************************************************************************)
\* An assignment that sets only the keys target does not have yet.
ObjectAssignKeep(target, source) ==
  Obj([k \in DOMAIN target.v \cup DOMAIN source.v |->
         IF k \in DOMAIN target.v THEN target.v[k] ELSE source.v[k]])
\* Object.assign(target, source) on two objects: every own key of source is
\* set on target, null values included.
ObjectAssign(target, source) ==
  Obj([k \in DOMAIN target.v \cup DOMAIN source.v |->
         IF k \in DOMAIN source.v THEN source.v[k] ELSE target.v[k]])

\* The section tests of the three loops.
printerSectionMatchesAny(sectionKey, printer) == Includes(sectionKey, printer)
printerSectionMatches(sectionKey, printer) ==
  StartsWith(sectionKey, "print:") /\ Includes(sectionKey, printer)
nozzleSectionMatches(sectionKey, nozzle) ==
  \/ Includes(sectionKey, ReplaceFirst(nozzle, "mm", "") \o "nozzle")
  \/ Includes(sectionKey, nozzle)
combinationSectionMatches(sectionKey, printer, nozzle) ==
  Includes(sectionKey, printer) /\ nozzleSectionMatches(sectionKey, nozzle)

\* for (const [sectionKey, sectionValue] of Object.entries(config)) with an
\* Object.assign(sectionValue, fragment) on the sections chosen.
AssignToSections(config, chosen, fragment) ==
  Obj([sectionKey \in DOMAIN config.v |->
         IF sectionKey \in chosen
         THEN ObjectAssign(config.v[sectionKey], fragment)
         ELSE config.v[sectionKey]])

prusaApplyPrinterOverrides(config, overrides, printer) ==
  IF ~Truthy(Lookup(overrides, "printers", printer)) THEN config
  ELSE AssignToSections(config,
         {k \in DOMAIN config.v : printerSectionMatches(k, printer)},
         Lookup(overrides, "printers", printer))

prusaApplyNozzleOverrides(config, overrides, nozzle) ==
  IF ~Truthy(Lookup(overrides, "nozzles", nozzle)) THEN config
  ELSE AssignToSections(config,
         {k \in DOMAIN config.v : nozzleSectionMatches(k, nozzle)},
         Lookup(overrides, "nozzles", nozzle))

prusaApplyCombinationOverrides(config, overrides, printer, nozzle) ==
  IF ~Truthy(Get(overrides, "combination")) THEN config
  ELSE AssignToSections(config,
         {k \in DOMAIN config.v : combinationSectionMatches(k, printer, nozzle)},
         Get(overrides, "combination"))

\* if (config.vendor && config.vendor.config_version) ... = version
updateVendorVersion(config, ver) ==
  IF Truthy(Get(config, "vendor")) /\ Truthy(Get(Get(config, "vendor"), "config_version"))
  THEN Put(config, "vendor", Put(config.v["vendor"], "config_version", Str(ver)))
  ELSE config

prusaFilename(mat, ver) == "addnorth_" \o mat \o "_" \o ver \o ".ini"

\* One artifact for each section of the config.
prusaResultsPerSection(config, mat, ver) ==
  LET RECURSIVE List(_)
      List(S) == IF S = {} THEN <<>>
                 ELSE LET k == CHOOSE k \in S : TRUE
                      IN <<[material |-> mat, config |-> config,
                            filename |-> prusaFilename(mat, ver)]>>
                         \o List(S \ {k})
  IN List(DOMAIN config.v)

\* The list generateAllConfigs returns for the config generateConfig gave.
prusaResults(config, mat, ver) ==
  <<[material |-> mat, config |-> config, filename |-> prusaFilename(mat, ver)]>>

(***************************************************************************)
(* The generators on the memory of objects: the loaded base config, the    *)
(* loaded overrides and config are objects at addresses, and every         *)
(* assignment of generateConfig is made on the object it is made on in the *)
(* program.                                                                *)
(***************************************************************************)
NoMemory ==
  [heap |-> <<>>, base |-> NoRef, overrides |-> NoRef, config |-> NoRef,
   results |-> <<>>]
\* No call of the generator has ended yet.
FirstCall ==
  [n |-> 1, first |-> <<>>, config |-> Null, refs |-> <<>>, pc |-> "none",
   error |-> "none"]

\* let config = baseConfig: no clone is made.
cloneAlias(heap, cell) == [heap |-> heap, cell |-> cell]

\* JSON.parse(JSON.stringify(baseConfig)): new objects at every depth.
heapJsonClone(heap, cell) == Alloc(heap, JsonClone(Deref(heap, cell)))

\* What loadBaseConfig and loadAllOverrides returned, and the clone.
heapLoad(mem, base, overrides) ==
  LET b == Alloc(mem.heap, base)
      o == Alloc(b.heap, overrides)
      c == heapJsonClone(o.heap, b.cell)
  IN [mem EXCEPT !.heap = c.heap, !.base = b.cell, !.overrides = o.cell,
                 !.config = c.cell]

\* overrides?.[layer]?.[key] and overrides?.combination
heapLookup(mem, layer, key) ==
  LET l == IF IsRef(mem.overrides) THEN HeapGet(mem.heap[mem.overrides.v], layer)
           ELSE Undefined
  IN IF IsRef(l) THEN HeapGet(mem.heap[l.v], key) ELSE Undefined
heapCombination(mem) ==
  IF IsRef(mem.overrides) THEN HeapGet(mem.heap[mem.overrides.v], "combination")
  ELSE Undefined

\* config = deepMerge(config, fragment) when there is a fragment.
heapMergeConfig(mem, fragment) ==
  IF ~IsRef(fragment) THEN mem
  ELSE LET m == heapDeepMerge(mem.heap, mem.config.v, fragment.v, EmptyFn)
       IN [mem EXCEPT !.heap = m.heap, !.config = Ref(m.ref)]
heapApplyPrinterOverrides(mem, printer) ==
  heapMergeConfig(mem, heapLookup(mem, "printers", printer))
heapApplyNozzleOverrides(mem, nozzle) ==
  heapMergeConfig(mem, heapLookup(mem, "nozzles", nozzle))
heapApplyCombinationOverrides(mem) == heapMergeConfig(mem, heapCombination(mem))

\* config.compatible_printers = [printer]; if (config.version) config.version
\* = version
heapPostProcess(mem, printer, ver) ==
  LET only == HeapSet(mem.heap, mem.config.v, "compatible_printers",
                      Arr(<<Str(printer)>>))
  IN [mem EXCEPT !.heap =
        IF Truthy(AsValue(HeapGet(only[mem.config.v], "version")))
        THEN HeapSet(only, mem.config.v, "version", Str(ver))
        ELSE only]

\* Object.assign(target, source) on the objects at addresses t and s.
heapObjectAssign(heap, t, s) == [heap EXCEPT ![t] = heap[s] @@ heap[t]]

\* The loop over Object.entries(config) with Object.assign(sectionValue,
\* fragment) on the sections chosen.
RECURSIVE heapAssignToSections(_, _, _, _)
heapAssignToSections(heap, config, chosen, s) ==
  IF chosen = {} THEN heap
  ELSE LET sectionKey == CHOOSE k \in chosen : TRUE
           sectionValue == heap[config][sectionKey]
       IN heapAssignToSections(
            IF IsRef(sectionValue) THEN heapObjectAssign(heap, sectionValue.v, s)
            ELSE heap,
            config, chosen \ {sectionKey}, s)
heapAssignWhere(mem, fragment, Matches(_)) ==
  IF ~IsRef(fragment) THEN mem
  ELSE [mem EXCEPT !.heap =
          heapAssignToSections(mem.heap, mem.config.v,
            {k \in DOMAIN mem.heap[mem.config.v] : Matches(k)}, fragment.v)]
heapPrusaApplyPrinterOverrides(mem, printer) ==
  heapAssignWhere(mem, heapLookup(mem, "printers", printer),
                  LAMBDA k : printerSectionMatches(k, printer))
heapPrusaApplyNozzleOverrides(mem, nozzle) ==
  heapAssignWhere(mem, heapLookup(mem, "nozzles", nozzle),
                  LAMBDA k : nozzleSectionMatches(k, nozzle))
heapPrusaApplyCombinationOverrides(mem, printer, nozzle) ==
  heapAssignWhere(mem, heapCombination(mem),
                  LAMBDA k : combinationSectionMatches(k, printer, nozzle))

\* if (config.vendor && config.vendor.config_version)
\*   config.vendor.config_version = version
heapUpdateVendorVersion(mem, ver) ==
  LET vendor == HeapGet(mem.heap[mem.config.v], "vendor")
  IN IF IsRef(vendor)
        /\ Truthy(AsValue(HeapGet(mem.heap[vendor.v], "config_version")))
     THEN [mem EXCEPT !.heap = HeapSet(mem.heap, vendor.v, "config_version", Str(ver))]
     ELSE mem

\* generateConfig(material, "prusaslicer", version, {printer, nozzle}) as a
\* function of the files it reads and of its options: the config it
\* returns, or the Error it throws.
prusaGenerateConfig(dsk, printer, nozzle) ==
  LET base == loadBaseConfig(dsk, "prusaslicer").config
      overrides == loadAllOverrides(dsk, printer.v, nozzle.v)
  IN IF ~Truthy(base) THEN Thrown("Base config not found")
     ELSE IF ~(Truthy(printer) /\ Truthy(nozzle))
       THEN updateVendorVersion(JsonClone(base), version)
     ELSE IF IsThrown(overrides) THEN overrides
     ELSE updateVendorVersion(
            prusaApplyCombinationOverrides(
              prusaApplyNozzleOverrides(
                prusaApplyPrinterOverrides(JsonClone(base), overrides, printer.v),
                overrides, nozzle.v),
              overrides, printer.v, nozzle.v),
            version)

\* generateAllConfigs of the INI generator as a function: whether it
\* throws, with which message, and the list it returns.
prusaGenerateAllConfigs(dsk, printer, nozzle) ==
  LET config == prusaGenerateConfig(dsk, printer, nozzle)
  IN IF ~Truthy(loadBaseConfig(dsk, "prusaslicer").config)
       THEN [thrown |-> FALSE, error |-> "none", results |-> <<>>]
     ELSE IF IsThrown(config)
       THEN [thrown |-> TRUE, error |-> config.v, results |-> <<>>]
     ELSE [thrown |-> FALSE, error |-> "none",
           results |-> prusaResults(config, material, version)]

(***************************************************************************)
(* Inputs of the INI generator: section-keyed base configs, the printer    *)
(* and nozzle options, and the override files.                             *)
(***************************************************************************)
Section(pairs) == Obj([k \in DOMAIN pairs |-> Str(pairs[k])])

IniSections ==
  ("filament:PLA" :> Section("temperature" :> "200"))
  @@ ("filament:PLA @MK4" :> Section("temperature" :> "205"))
  @@ ("print:*MK4*" :> Section(("speed" :> "40") @@ ("layer" :> "0.2")))
  @@ ("print:*MK4*0.4nozzle*" :> Section("speed" :> "45"))
  @@ ("print:*0.4nozzle*" :> Section("speed" :> "50"))
  @@ ("printer:MK4 0.4mm" :> Section("speed" :> "55"))
  @@ ("print:*MINI*0.6nozzle*" :> Section("speed" :> "30"))
VendorSection == Section(("name" :> "addnorth") @@ ("config_version" :> "0.0.1"))
IniBases ==
  { Obj(IniSections @@ ("vendor" :> VendorSection)),
    Obj(IniSections @@ ("vendor" :> Section("name" :> "addnorth"))),
    Obj(IniSections) }

PrinterOptions == {Undefined, Str("MK4"), Str("MINI")}
NozzleOptions == {Undefined, Str("0.4mm"), Str("0.4"), Str("0.6mm")}

IniPrinterFragments ==
  << Section(("speed" :> "41") @@ ("fan" :> "1")),
     Obj(("speed" :> Null) @@ ("fan" :> Str("2"))) >>
IniNozzleFragments ==
  << Section(("speed" :> "51") @@ ("width" :> "0.45")),
     Section("width" :> "0.65") >>
IniCombinationFragments ==
  << Section(("speed" :> "46") @@ ("bridge" :> "1")), EmptyObj >>

IniPrinterFiles ==
  {Absent, Malformed, Eperm}
  \cup {File(Obj("MK4" :> IniPrinterFragments[i])) : i \in 1..2}
  \cup {File(Obj(("MK4" :> IniPrinterFragments[1]) @@ ("MINI" :> IniPrinterFragments[2])))}
IniNozzleFiles ==
  {Absent, Eio,
   File(Obj("0.4mm" :> IniNozzleFragments[1])),
   File(Obj("0.4" :> IniNozzleFragments[1])),
   File(Obj(("0.4mm" :> IniNozzleFragments[1]) @@ ("0.6mm" :> IniNozzleFragments[2])))}
IniCombinationDirs ==
  {EmptyFn,
   "MK4-0.4mm.json" :> Malformed,
   "MK4-0.4mm.json" :> File(IniCombinationFragments[1]),
   ("MK4-0.4mm.json" :> File(IniCombinationFragments[2]))
     @@ ("MINI-0.6mm.json" :> File(IniCombinationFragments[1])),
   "MK4-0.4.json" :> File(IniCombinationFragments[1])}

\* base.ini, or a section-keyed base.json next to or instead of it.
PrusaDisks ==
  {Disk(bi, bj, pf, nf, cd, <<>>) :
     bi \in {Absent} \cup {File(b) : b \in IniBases},
     bj \in {Absent, File(Obj(IniSections))},
     pf \in IniPrinterFiles, nf \in IniNozzleFiles, cd \in IniCombinationDirs}

(***************************************************************************)
(* build/validate.ts: validateBambuConfig                                  *)
(***************************************************************************)
\* The text of `${x.length}` for a truthy x.
LengthText(x) ==
  IF IsArr(x) \/ x.t = "str"
  THEN CASE Len(x.v) = 0 -> "0" [] Len(x.v) = 1 -> "1" [] Len(x.v) = 2 -> "2"
         [] OTHER -> "many"
  ELSE "undefined"
\* x.length !== 1
LengthIsNotOne(x) == IF IsArr(x) \/ x.t = "str" THEN Len(x.v) # 1 ELSE TRUE

\* !config.f || !Array.isArray(config.f)
MissingOrNotArray(config, f) == ~Truthy(Get(config, f)) \/ ~IsArr(Get(config, f))
\* The test of the third required field left out.
validateBambuConfigTwoFields(config) ==
  LET errors ==
        (IF MissingOrNotArray(config, "compatible_printers")
         THEN <<"Missing or invalid compatible_printers array">> ELSE <<>>)
        \o (IF MissingOrNotArray(config, "filament_settings_id")
            THEN <<"Missing or invalid filament_settings_id">> ELSE <<>>)
  IN [isValid |-> errors = <<>>, errors |-> errors, warnings |-> <<>>]

validateBambuConfig(config) ==
  LET cp == Get(config, "compatible_printers")
      errors ==
        (IF MissingOrNotArray(config, "compatible_printers")
         THEN <<"Missing or invalid compatible_printers array">> ELSE <<>>)
        \o (IF MissingOrNotArray(config, "filament_settings_id")
            THEN <<"Missing or invalid filament_settings_id">> ELSE <<>>)
        \o (IF MissingOrNotArray(config, "filament_type")
            THEN <<"Missing or invalid filament_type">> ELSE <<>>)
      warnings ==
        IF Truthy(cp) /\ LengthIsNotOne(cp)
        THEN <<"Expected exactly one printer in compatible_printers, found "
                 \o LengthText(cp)>>
        ELSE <<>>
  IN [isValid |-> errors = <<>>, errors |-> errors, warnings |-> warnings]

\* Values of a required field, Undefined for a config without the field.
FieldValues ==
  {Undefined, Null, Arr(<<>>), StrArr(<<"X 0.4 nozzle">>),
   StrArr(<<"X 0.4 nozzle", "Y 0.4 nozzle">>), Str("PLA"), Str(""), Num(0), EmptyObj}
BambuField(name, value) == IF IsUndefined(value) THEN EmptyFn ELSE name :> value
ValidateConfigs ==
  {Obj(BambuField("compatible_printers", cp) @@ BambuField("filament_settings_id", id)
       @@ BambuField("filament_type", ft) @@ ("perimeter_speed" :> Num(60))) :
     cp \in FieldValues, id \in FieldValues, ft \in FieldValues}

\* validatePrusaConfig(config)
validatePrusaConfig(config) ==
  LET vendor == Get(config, "vendor")
      errors ==
        IF ~Truthy(vendor) THEN <<"Missing [vendor] section">>
        ELSE IF ~Truthy(Get(vendor, "name"))
          THEN <<"Missing vendor.name in [vendor] section">>
        ELSE <<>>
      warnings ==
        (IF Truthy(vendor) /\ ~Truthy(Get(vendor, "config_version"))
         THEN <<"Missing vendor.config_version in [vendor] section">> ELSE <<>>)
        \o (IF \E key \in DOMAIN config.v : StartsWith(key, "filament:")
            THEN <<>> ELSE <<"No [filament:*] sections found">>)
  IN [isValid |-> errors = <<>>, errors |-> errors, warnings |-> warnings]

(***************************************************************************)
(* build/validate.ts: syntax validation of the source files                *)
(***************************************************************************)
\* The result "null" of validateJSON and validateINI: nothing to validate.
NoValidation == [none |-> TRUE, isValid |-> FALSE, error |-> ""]
ValidationResult(isValid, error) == [none |-> FALSE, isValid |-> isValid, error |-> error]

\* error.message of the failure to read or parse a file.
ErrorMessage(file) ==
  IF file.s = "malformed" THEN "Unexpected token" ELSE "EIO: i/o error, read"

\* validateJSON(filePath): null for ENOENT and EPERM, valid for text that
\* parses, and an error with the path and the message otherwise.
validateJSON(filePath, file) ==
  CASE file.s = "ok" -> ValidationResult(TRUE, "")
    [] file.s \in {"absent", "eperm"} -> NoValidation
    [] OTHER -> ValidationResult(FALSE,
                  "Invalid JSON syntax in " \o filePath \o ": " \o ErrorMessage(file))

\* validateINI(filePath): ini.parse accepts any text.
validateINI(filePath, file) ==
  CASE file.s \in {"ok", "malformed"} -> ValidationResult(TRUE, "")
    [] file.s \in {"absent", "eperm"} -> NoValidation
    [] OTHER -> ValidationResult(FALSE,
                  "Invalid INI syntax in " \o filePath \o ": " \o ErrorMessage(file))

\* if (result && !result.isValid && result.error) errors.push(result.error)
PushError(result) ==
  IF ~result.none /\ ~result.isValid /\ result.error # "" THEN <<result.error>> ELSE <<>>

\* A slicer directory of a material: its files, and combinations/, which is
\* missing (ENOENT), unreadable (EPERM), not a directory (ENOTDIR), or a
\* directory with its entries in readdir order.
CombinationsDir(s, entries) == [s |-> s, entries |-> entries]
NoCombinations == CombinationsDir("absent", <<>>)
SlicerDir(baseIni, baseJson, printers, nozzles, combinations) ==
  [baseIni |-> baseIni, baseJson |-> baseJson, printers |-> printers,
   nozzles |-> nozzles, combinations |-> combinations]
NoSlicerDir == SlicerDir(Absent, Absent, Absent, Absent, NoCombinations)
\* A material directory: the slicer directories it lists, in readdir order.
MaterialDir(slicers, dirs) == [slicers |-> slicers, dirs |-> dirs]
SlicerDirOf(mdir, slicer) ==
  IF slicer \in DOMAIN mdir.dirs THEN mdir.dirs[slicer] ELSE NoSlicerDir
slicerDirPath(mat, slicer) == materialsDir \o mat \o "/" \o slicer \o "/"

\* The errors of the .json entries of combinations/, entry by entry.
RECURSIVE CombinationErrors(_, _)
CombinationErrors(dirPath, entries) ==
  IF entries = <<>> THEN <<>>
  ELSE LET e == Head(entries)
       IN (IF EndsWith(e.name, ".json")
           THEN PushError(validateJSON(dirPath \o e.name, e.file)) ELSE <<>>)
          \o CombinationErrors(dirPath, Tail(entries))

\* The body of validateMaterialOverrides' loop for one slicer: an exception of
\* fs.readdir other than ENOENT and EPERM is thrown again.
OverrideErrorsOf(mat, mdir, slicer) ==
  LET d == SlicerDirOf(mdir, slicer)
      p == slicerDirPath(mat, slicer)
  IN [thrown |-> d.combinations.s \notin {"ok", "absent", "eperm"},
      errors |->
        PushError(validateJSON(p \o "printers.json", d.printers))
        \o PushError(validateJSON(p \o "nozzles.json", d.nozzles))
        \o (IF d.combinations.s = "ok"
            THEN CombinationErrors(p \o "combinations/", d.combinations.entries)
            ELSE <<>>)]

OverrideSlicers == <<"prusaslicer", "bambuslicer">>

\* validateMaterialOverrides(material)
validateMaterialOverrides(mat, mdir) ==
  LET r == [i \in 1..Len(OverrideSlicers) |-> OverrideErrorsOf(mat, mdir, OverrideSlicers[i])]
      errors == Flatten([i \in 1..Len(r) |-> r[i].errors])
  IN [thrown |-> \E i \in 1..Len(r) : r[i].thrown,
      isValid |-> errors = <<>>, errors |-> errors, warnings |-> <<>>]

\* The body of validateMaterialBaseConfigs' loop for one slicer.
BaseProblemsOf(mat, mdir, slicer) ==
  LET d == SlicerDirOf(mdir, slicer)
      p == slicerDirPath(mat, slicer)
      iniResult == validateINI(p \o "base.ini", d.baseIni)
      jsonResult == validateJSON(p \o "base.json", d.baseJson)
  IN [errors |-> PushError(iniResult) \o PushError(jsonResult),
      warnings |->
        IF iniResult.none /\ jsonResult.none
        THEN <<"[" \o mat \o "/" \o slicer \o "] base config not found: "
                 \o p \o "base.ini or " \o p \o "base.json">>
        ELSE <<>>]

\* validateMaterialBaseConfigs(material), over getSlicersForMaterial.
validateMaterialBaseConfigs(mat, mdir) ==
  LET r == [i \in 1..Len(mdir.slicers) |-> BaseProblemsOf(mat, mdir, mdir.slicers[i])]
      errors == Flatten([i \in 1..Len(r) |-> r[i].errors])
  IN [isValid |-> errors = <<>>, errors |-> errors,
      warnings |-> Flatten([i \in 1..Len(r) |-> r[i].warnings])]

\* results.map((e) => `[${material}] ${e}`)
Prefixed(mat, seq) == [i \in 1..Len(seq) |-> "[" \o mat \o "] " \o seq[i]]

\* The materials directories validateAll is run on.
Entry(name, file) == [name |-> name, file |-> file]
MaterialDirs ==
  { MaterialDir(<<>>, EmptyFn),
    MaterialDir(<<"bambuslicer">>,
      "bambuslicer" :> SlicerDir(Absent, File(EmptyObj), File(EmptyObj), Absent,
                                 NoCombinations)),
    MaterialDir(<<"bambuslicer">>,
      "bambuslicer" :> SlicerDir(Absent, Malformed, Malformed, Eperm,
                                 CombinationsDir("eperm", <<>>))),
    MaterialDir(<<"prusaslicer">>,
      "prusaslicer" :> SlicerDir(Absent, Absent, Absent, Malformed, NoCombinations)),
    MaterialDir(<<"bambuslicer", "prusaslicer">>,
      ("bambuslicer" :> SlicerDir(Absent, File(EmptyObj), Absent, Absent,
          CombinationsDir("ok", <<Entry("X-0.4.json", Malformed),
                                  Entry("notes.txt", Malformed),
                                  Entry("Y-0.4.json", File(EmptyObj))>>)))
      @@ ("prusaslicer" :> SlicerDir(Eio, Absent, Eio, Absent, NoCombinations))),
    MaterialDir(<<"bambuslicer">>,
      "bambuslicer" :> SlicerDir(Absent, Malformed, Absent, Absent,
                                 CombinationsDir("enotdir", <<>>))),
    MaterialDir(<<"orcaslicer">>,
      "orcaslicer" :> SlicerDir(Malformed, Absent, Malformed, Absent, NoCombinations)) }
\* materials/: one directory per material, in readdir order.
MaterialTrees ==
  UNION {[1..n -> MaterialDirs] : n \in 1..Len(MaterialNames)}

(***************************************************************************)
(* The output directory, and saveConfig of both generators.                *)
(***************************************************************************)
\* The file system the build writes to: the paths that exist, each a
\* directory or a file with its text.
Dir == [kind |-> "dir", v |-> Null]
FileOf(text) == [kind |-> "file", v |-> text]
\* path.join(dir, name)
JoinPath(dir, name) == dir \o "/" \o name
\* The directories above a path.
Parents(p) == {SubSeq(p, 1, i - 1) : i \in {j \in 2..Len(p) : CharAt(p, j) = "/"}}
\* fs.rm(dir, {recursive: true, force: true})
Rm(fs, dir) ==
  [p \in {q \in DOMAIN fs : q # dir /\ ~StartsWith(q, dir \o "/")} |-> fs[p]]
\* fs.mkdir(dir, {recursive: true})
Mkdir(fs, dir) ==
  [p \in DOMAIN fs \cup Parents(dir) \cup {dir} |-> IF p \in DOMAIN fs THEN fs[p] ELSE Dir]
\* fs.writeFile(path, text, "utf-8")
WriteFile(fs, p, text) ==
  [q \in DOMAIN fs \cup {p} |-> IF q = p THEN FileOf(text) ELSE fs[q]]

\* JSON.stringify(config, null, 4), as the value JSON.parse reads from it.
JsonText(config) == [t |-> "json text", v |-> JsonClone(config)]

\* `${value}` of a value in a section, and value.join("; ") of an array.
RECURSIVE TemplateText(_)
RECURSIVE JoinTexts(_, _)
TemplateText(x) ==
  CASE x.t = "str" -> x.v
    [] x.t = "num" -> ToString(x.v)
    [] x.t = "bool" -> IF x.v THEN "true" ELSE "false"
    [] x.t = "null" -> "null"
    [] x.t = "arr" -> JoinTexts(x.v, ",")
    [] x.t = "obj" -> "[object Object]"
    [] OTHER -> "undefined"
JoinTexts(seq, sep) ==
  IF seq = <<>> THEN ""
  ELSE IF Len(seq) = 1 THEN (IF Head(seq).t \in {"null", "undefined"} THEN ""
                             ELSE TemplateText(Head(seq)))
  ELSE (IF Head(seq).t \in {"null", "undefined"} THEN "" ELSE TemplateText(Head(seq)))
       \o sep \o JoinTexts(Tail(seq), sep)

\* stringifyINI(config): a [section] heading per key of config and a line
\* "key = value" per key of the section, as the sections and lines of the
\* text.  Object.entries of a section that is null throws.
stringifyINI(config) ==
  IF \E s \in DOMAIN config.v : config.v[s].t \in {"null", "undefined"}
  THEN Thrown("TypeError")
  ELSE [t |-> "ini text",
        v |-> Obj([s \in DOMAIN config.v |->
                IF IsObj(config.v[s])
                THEN Obj([k \in DOMAIN config.v[s].v |->
                       Str(IF IsArr(config.v[s].v[k])
                           THEN JoinTexts(config.v[s].v[k].v, "; ")
                           ELSE TemplateText(config.v[s].v[k]))])
                ELSE EmptyObj])]

\* saveConfig that writes in a dry run as well.
saveConfigAlways(fs, configData, outputDir, dryRun) ==
  LET outputPath == JoinPath(outputDir, configData.filename)
  IN [thrown |-> FALSE, path |-> outputPath,
      fs |-> WriteFile(Mkdir(fs, outputDir), outputPath, JsonText(configData.config))]

\* saveConfig of the JSON generator.
saveConfig(fs, configData, outputDir, dryRun) ==
  LET outputPath == JoinPath(outputDir, configData.filename)
  IN [thrown |-> FALSE, path |-> outputPath,
      fs |-> IF dryRun THEN fs
             ELSE WriteFile(Mkdir(fs, outputDir), outputPath,
                            JsonText(configData.config))]

\* saveConfig of the INI generator.
prusaSaveConfig(fs, configData, outputDir, dryRun) ==
  LET outputPath == JoinPath(outputDir, configData.filename)
      iniString == stringifyINI(configData.config)
  IN IF dryRun THEN [thrown |-> FALSE, path |-> outputPath, fs |-> fs]
     ELSE IF IsThrown(iniString)
       THEN [thrown |-> TRUE, path |-> outputPath, fs |-> Mkdir(fs, outputDir)]
     ELSE [thrown |-> FALSE, path |-> outputPath,
           fs |-> WriteFile(Mkdir(fs, outputDir), outputPath, iniString)]

(***************************************************************************)
(* scripts/build.ts and build/release.ts: the inputs of a build.           *)
(***************************************************************************)
\* materials/<material>/: its slicer directories in readdir order, each with
\* the files the loaders read.
SlicerEntry(slicer, dir) == [slicer |-> slicer, dir |-> dir]
IniFullBase == Obj(IniSections @@ ("vendor" :> VendorSection))
BambuOk == Disk(Absent, File(FullBase), Absent, Absent, EmptyFn, <<>>)
BambuPlain ==
  Disk(Absent, File(PlainBase), File(Obj("X" :> PrinterFragments[1])), Absent,
       EmptyFn, <<>>)
BambuMalformed == Disk(Absent, Malformed, Absent, Absent, EmptyFn, <<>>)
BambuUnreadableOverrides == Disk(Absent, File(FullBase), Eio, Absent, EmptyFn, <<>>)
PrusaOk ==
  Disk(File(IniFullBase), Absent, File(Obj("MK4" :> IniPrinterFragments[1])),
       File(Obj("0.4mm" :> IniNozzleFragments[1])),
       "MK4-0.4mm.json" :> File(IniCombinationFragments[1]), <<>>)
PrusaNoVendor == Disk(File(Obj(IniSections)), Absent, Absent, Absent, EmptyFn, <<>>)
BuildMaterials ==
  { <<SlicerEntry("bambuslicer", BambuOk)>>,
    <<SlicerEntry("bambuslicer", BambuMalformed)>>,
    <<SlicerEntry("prusaslicer", IdleDisk), SlicerEntry("bambuslicer", BambuOk)>>,
    <<SlicerEntry("bambuslicer", BambuUnreadableOverrides),
      SlicerEntry("prusaslicer", PrusaOk)>>,
    <<SlicerEntry("prusaslicer", PrusaNoVendor)>>,
    <<SlicerEntry("bambuslicer", BambuPlain)>>,
    <<>> }
BuildTrees == UNION {[1..n -> BuildMaterials] : n \in 1..Len(MaterialNames)}
\* config/printers.json
BuildTables ==
  { <<Printer("X", <<"bambuslicer">>, <<"0.4mm">>)>>,
    <<Printer("X", <<"bambuslicer">>, <<"0.4mm", "1mm">>)>>,
    <<Printer("Bambu Lab X1", <<"prusaslicer", "bambuslicer">>, <<"0.4mm", "0.6mm">>),
      Printer("Prusa MK4", <<"prusaslicer">>, <<"0.4mm">>)>> }
\* The command line, as parseArgs reads it.
BuildOptions(dryRun, release, verbose, slicer, printer, nozzle) ==
  [dryRun |-> dryRun, release |-> release, verbose |-> verbose, slicer |-> slicer,
   printer |-> printer, nozzle |-> nozzle]
BuildOptionsSet ==
  {BuildOptions(d, FALSE, FALSE, Undefined, Undefined, Undefined) : d \in BOOLEAN}
  \cup {BuildOptions(d, TRUE, v, Undefined, Undefined, Undefined) :
          d \in BOOLEAN, v \in BOOLEAN}
  \cup {BuildOptions(d, FALSE, FALSE, Str("bambuslicer"), Undefined, Undefined) :
          d \in BOOLEAN}
  \cup {BuildOptions(d, FALSE, TRUE, Undefined, Str("MK4"), Str("0.4mm")) :
          d \in BOOLEAN}
\* The output directory before the build: what an earlier build left.
OutputBase == "output"
StaleOutput ==
  ("output" :> Dir) @@ ("output/bambuslicer" :> Dir)
  @@ ("output/bambuslicer/addnorth_pla_old.json" :> FileOf(JsonText(EmptyObj)))

\* The slicers of a material and of all materials (getSlicersForMaterial,
\* getAllSlicers).
SlicersOf(mat) == [i \in 1..Len(mat) |-> mat[i].slicer]
getAllSlicers(tr) == UNION {Elems(SlicersOf(tr[i])) : i \in 1..Len(tr)}

\* The directory of a material as validate.ts reads it.
RECURSIVE EntriesOf(_)
EntriesOf(files) ==
  IF DOMAIN files = {} THEN <<>>
  ELSE LET n == CHOOSE n \in DOMAIN files : TRUE
       IN <<Entry(n, files[n])>> \o EntriesOf([k \in DOMAIN files \ {n} |-> files[k]])
AsMaterialDir(mat) ==
  MaterialDir(SlicersOf(mat),
    [s \in Elems(SlicersOf(mat)) |->
      LET d == (CHOOSE e \in Elems(mat) : e.slicer = s).dir
      IN SlicerDir(d.baseIni, d.baseJson, d.printers, d.nozzles,
                   IF DOMAIN d.combinations = {} THEN NoCombinations
                   ELSE CombinationsDir("ok", EntriesOf(d.combinations)))])
\* validateAll().errors for the materials of the build.
validationErrors(tr) ==
  Flatten([i \in 1..Len(tr) |->
    Prefixed(MaterialNames[i],
             validateMaterialBaseConfigs(MaterialNames[i], AsMaterialDir(tr[i])).errors)
    \o Prefixed(MaterialNames[i],
                validateMaterialOverrides(MaterialNames[i], AsMaterialDir(tr[i])).errors)])
\* validate(): validateAll().isValid
validate(tr) == validationErrors(tr) = <<>>

\* validateSlicer(material, slicer, baseConfig, filePath)
validateSlicer(mat, slicer, baseConfig, filePath) ==
  LET format == detectFormat(baseConfig, IF Truthy(filePath) THEN filePath ELSE NoPath)
  IN IF ~Truthy(baseConfig)
       THEN [valid |-> FALSE, format |-> "null",
             error |-> "No base config found for " \o mat \o "/" \o slicer]
     ELSE IF format = "null"
       THEN [valid |-> FALSE, format |-> "null",
             error |-> "Unable to detect format for " \o mat \o "/" \o slicer]
     ELSE [valid |-> TRUE, format |-> format, error |-> ""]

\* clearOutputDirs(outputBase, dryRun) of build.ts over the given directories.
RECURSIVE ClearDirs(_, _)
ClearDirs(fs, dirs) ==
  IF dirs = {} THEN fs
  ELSE LET dir == CHOOSE dir \in dirs : TRUE
       IN ClearDirs(Mkdir(Rm(fs, dir), dir), dirs \ {dir})
clearOutputDirs(fs, tr, dryRun) ==
  IF dryRun THEN fs
  ELSE ClearDirs(fs, {JoinPath(OutputBase, s) : s \in getAllSlicers(tr)})
\* clearOutputDirs of release.ts: zips/ and releases/ as well.
releaseClearOutputDirs(fs, tr, dryRun) ==
  IF dryRun THEN fs
  ELSE ClearDirs(fs, {JoinPath(OutputBase, s) : s \in getAllSlicers(tr)}
                     \cup {JoinPath(OutputBase, "zips"), JoinPath(OutputBase, "releases")})

(***************************************************************************)
(* deepMerge as a state machine: the arguments, then the call.             *)
(***************************************************************************)
MergeInit ==
  /\ \/ mTarget \in FlatObjs /\ mSource \in FlatObjs
     \/ mTarget \in NestedObjs /\ mSource \in NestedObjs
  /\ mOptions \in MergeOptionsSet
  /\ mResult = Null
  /\ mPc = "call"

MergeIdle ==
  /\ mTarget = EmptyObj /\ mSource = EmptyObj /\ mOptions = EmptyFn
  /\ mResult = Null /\ mPc = "idle"

\* One call deepMerge(mTarget, mSource, mOptions).
DeepMergeCall ==
  /\ mPc = "call"
  /\ mResult' = deepMerge(mTarget, mSource, mOptions)
  /\ mPc' = "returned"
  /\ UNCHANGED <<mTarget, mSource, mOptions, heapVars, loads>>
  /\ UNCHANGED <<detectVars, disk, bambuVars, prusaVars, validateVars, allVars, buildVars>>

(***************************************************************************)
(* deepMerge and mergeAll on the memory: the arguments are allocated, then *)
(* deepMerge(target, source, options) is called, then                      *)
(* mergeAll(target, null, source).                                         *)
(***************************************************************************)
\* The memory that holds target and source, and their addresses.
HeapOfArgs(target, source) ==
  LET t == Alloc(<<>>, target)
      s == Alloc(t.heap, source)
  IN [heap |-> s.heap, target |-> t.cell, source |-> s.cell]

HeapInit ==
  /\ \/ hTarget \in FlatObjs /\ hSource \in FlatObjs
     \/ hTarget \in HeapObjs /\ hSource \in HeapObjs
  /\ hOptions \in MergeOptionsSet
  /\ hHeap = HeapOfArgs(hTarget, hSource).heap
  /\ hRefs = [target |-> HeapOfArgs(hTarget, hSource).target,
              source |-> HeapOfArgs(hTarget, hSource).source,
              merged |-> NoRef, thrown |-> FALSE, all |-> NoRef, allThrown |-> FALSE]
  /\ hPc = "call"

HeapIdle ==
  /\ hTarget = EmptyObj /\ hSource = EmptyObj /\ hOptions = EmptyFn
  /\ hHeap = <<>>
  /\ hRefs = [target |-> NoRef, source |-> NoRef,
              merged |-> NoRef, thrown |-> FALSE, all |-> NoRef, allThrown |-> FALSE]
  /\ hPc = "idle"

\* deepMerge(target, source, options)
HeapDeepMergeCall ==
  /\ hPc = "call"
  /\ LET r == heapDeepMerge(hHeap, hRefs.target.v, hRefs.source.v, hOptions)
     IN /\ hHeap' = r.heap
        /\ hRefs' = [hRefs EXCEPT !.merged = Ref(r.ref), !.thrown = r.thrown]
  /\ hPc' = "merged"
  /\ UNCHANGED <<hTarget, hSource, hOptions, callVars, loads>>
  /\ UNCHANGED <<detectVars, disk, bambuVars, prusaVars, validateVars, allVars, buildVars>>

\* mergeAll(target, null, source)
HeapMergeAllCall ==
  /\ hPc = "merged"
  /\ LET r == heapMergeAll(hHeap, <<hRefs.target, Null, hRefs.source>>)
     IN /\ hHeap' = r.heap
        /\ hRefs' = [hRefs EXCEPT !.all = Ref(r.ref), !.allThrown = r.thrown]
  /\ hPc' = "folded"
  /\ UNCHANGED <<hTarget, hSource, hOptions, callVars, loads>>
  /\ UNCHANGED <<detectVars, disk, bambuVars, prusaVars, validateVars, allVars, buildVars>>

HeapNext == HeapDeepMergeCall \/ HeapMergeAllCall

(***************************************************************************)
(* detectFormat as a state machine: detectFormat(dConfig, dPath) and        *)
(* detectFormat(dOther, dPath).                                            *)
(***************************************************************************)
DetectInit ==
  /\ dConfig \in DetectConfigs
  /\ dOther \in DetectConfigs
  /\ dPath \in DetectPaths
  /\ dResult = "none" /\ dResultOther = "none"
  /\ dPc = "call"

DetectIdle ==
  /\ dConfig = Null /\ dOther = Null /\ dPath = NoPath
  /\ dResult = "none" /\ dResultOther = "none" /\ dPc = "idle"

DetectFormatCall ==
  /\ dPc = "call"
  /\ dResult' = detectFormat(dConfig, dPath)
  /\ dResultOther' = detectFormat(dOther, dPath)
  /\ dPc' = "returned"
  /\ UNCHANGED <<dConfig, dOther, dPath>>
  /\ UNCHANGED <<mergeVars, disk, bambuVars, prusaVars, validateVars, allVars, buildVars>>

(***************************************************************************)
(* The head of an iteration of the build loop: loadBaseConfig(material,    *)
(* slicer), then validateSlicer on what it returned.                       *)
(***************************************************************************)
baseSlicer == "prusaslicer"
\* A slicer directory with any base.ini next to any base.json.
BaseDisks ==
  {Disk(bi, bj, Absent, Absent, EmptyFn, <<>>) :
     bi \in {Absent, Malformed, Eperm, Eio} \cup {File(b) : b \in IniBases},
     bj \in {Absent, Malformed, Eperm, Eio, File(Obj(IniSections))}
              \cup {File(b) : b \in BambuBases}}

BaseInit ==
  /\ disk \in BaseDisks
  /\ dConfig = Null /\ dOther = Null /\ dPath = NoPath
  /\ dResult = "none" /\ dResultOther = "none"
  /\ dPc = "load"

\* const { config: baseConfig, filePath } = await loadBaseConfig(material,
\* slicer)
BaseLoad ==
  /\ dPc = "load"
  /\ dConfig' = loadBaseConfig(disk, baseSlicer).config
  /\ dPath' = loadBaseConfig(disk, baseSlicer).filePath
  /\ dPc' = "loaded"
  /\ UNCHANGED <<dOther, dResult, dResultOther>>
  /\ UNCHANGED <<mergeVars, disk, bambuVars, prusaVars, validateVars, allVars, buildVars>>

\* const validation = validateSlicer(material, slicer, baseConfig, filePath)
BaseValidate ==
  /\ dPc = "loaded"
  /\ dResult' = validateSlicer(material, baseSlicer, dConfig, dPath).format
  /\ dPc' = "validated"
  /\ UNCHANGED <<dConfig, dOther, dPath, dResultOther>>
  /\ UNCHANGED <<mergeVars, disk, bambuVars, prusaVars, validateVars, allVars, buildVars>>

BaseNext == BaseLoad \/ BaseValidate

(***************************************************************************)
(* The JSON generator as a state machine: generateAllConfigs(material,     *)
(* slicer, version) and, inside its loop, generateConfig.                  *)
(***************************************************************************)
\* The slicer directories whose base config is a base.json: the registry
\* gives each of them to this generator.
JsonSlicers == {"bambuslicer", "prusaslicer"}

BambuInit ==
  /\ disk \in BambuDisks
  /\ bSlicer \in JsonSlicers
  /\ bPc = "start"
  /\ bCompat = <<>> /\ bIdx = 0 /\ bResults = <<>>
  /\ bConfig = Null /\ bOverrides = Null /\ bError = "none"
  /\ bHeap = NoMemory /\ bCalls = FirstCall

BambuIdle ==
  /\ bSlicer = "none"
  /\ bPc = "idle"
  /\ bCompat = <<>> /\ bIdx = 0 /\ bResults = <<>>
  /\ bConfig = Null /\ bOverrides = Null /\ bError = "none"
  /\ bHeap = NoMemory /\ bCalls = FirstCall

\* generateAllConfigs up to its loop: no base config, an empty list; else
\* the identifiers from config/printers.json.
BambuStart ==
  /\ bPc = "start"
  /\ IF ~Truthy(loadBaseConfig(disk, bSlicer).config)
     THEN bPc' = "returned" /\ UNCHANGED <<bCompat, bIdx>>
     ELSE /\ bCompat' = compatiblePrintersOf(disk.printersConfig)
          /\ bIdx' = 1
          /\ bPc' = "loop"
  /\ UNCHANGED <<bResults, bConfig, bOverrides, bError>>
  /\ UNCHANGED <<bHeap, bCalls>>
  /\ UNCHANGED <<bSlicer, mergeVars, detectVars, disk, prusaVars, validateVars, allVars, buildVars>>

\* The loop is over: return results.
BambuReturn ==
  /\ bPc = "loop" /\ bIdx > Len(bCompat)
  /\ bPc' = "returned"
  /\ UNCHANGED <<bCompat, bIdx, bResults, bConfig, bOverrides, bError>>
  /\ UNCHANGED <<bHeap, bCalls>>
  /\ UNCHANGED <<bSlicer, mergeVars, detectVars, disk, prusaVars, validateVars, allVars, buildVars>>

\* generateConfig up to the clone: load the base, extract printer name and
\* nozzle size, load the overrides.  Each failure is thrown, and
\* generateAllConfigs throws it on.
BambuLoad ==
  /\ bPc = "loop" /\ bIdx <= Len(bCompat)
  /\ LET printer == bCompat[bIdx]
         base == loadBaseConfig(disk, bSlicer).config
         printerName == extractPrinterName(printer)
         nozzleSize == extractNozzleSize(printer)
         overrides == loadAllOverrides(disk, printerName, nozzleSize.v)
     IN IF ~Truthy(base)
          THEN bPc' = "thrown" /\ bError' = "Base config not found"
               /\ UNCHANGED <<bConfig, bOverrides, bHeap>>
        ELSE IF ~Truthy(nozzleSize)
          THEN bPc' = "thrown" /\ bError' = "Could not extract nozzle size"
               /\ UNCHANGED <<bConfig, bOverrides, bHeap>>
        ELSE IF IsThrown(overrides)
          THEN bPc' = "thrown" /\ bError' = overrides.v
               /\ UNCHANGED <<bConfig, bOverrides, bHeap>>
        ELSE /\ bOverrides' = overrides
             /\ bConfig' = JsonClone(base)
             /\ bHeap' = heapLoad(bHeap, base, overrides)
             /\ bPc' = "printer"
             /\ UNCHANGED bError
  /\ UNCHANGED <<bCompat, bIdx, bResults>>
  /\ UNCHANGED bCalls
  /\ UNCHANGED <<bSlicer, mergeVars, detectVars, disk, prusaVars, validateVars, allVars, buildVars>>

BambuApplyPrinter ==
  /\ bPc = "printer"
  /\ bConfig' = applyPrinterOverrides(bConfig, bOverrides,
                                      extractPrinterName(bCompat[bIdx]))
  /\ bPc' = "nozzle"
  /\ UNCHANGED <<bCompat, bIdx, bResults, bOverrides, bError>>
  /\ bHeap' = heapApplyPrinterOverrides(bHeap, extractPrinterName(bCompat[bIdx]))
  /\ UNCHANGED bCalls
  /\ UNCHANGED <<bSlicer, mergeVars, detectVars, disk, prusaVars, validateVars, allVars, buildVars>>

BambuApplyNozzle ==
  /\ bPc = "nozzle"
  /\ bConfig' = applyNozzleOverrides(bConfig, bOverrides,
                                     extractNozzleSize(bCompat[bIdx]).v)
  /\ bPc' = "combination"
  /\ UNCHANGED <<bCompat, bIdx, bResults, bOverrides, bError>>
  /\ bHeap' = heapApplyNozzleOverrides(bHeap, extractNozzleSize(bCompat[bIdx]).v)
  /\ UNCHANGED bCalls
  /\ UNCHANGED <<bSlicer, mergeVars, detectVars, disk, prusaVars, validateVars, allVars, buildVars>>

\* After this step bConfig is the resolved config before post-processing.
BambuApplyCombination ==
  /\ bPc = "combination"
  /\ bConfig' = applyCombinationOverrides(bConfig, bOverrides,
                                          extractPrinterName(bCompat[bIdx]),
                                          extractNozzleSize(bCompat[bIdx]).v)
  /\ bPc' = "merged"
  /\ UNCHANGED <<bCompat, bIdx, bResults, bOverrides, bError>>
  /\ bHeap' = heapApplyCombinationOverrides(bHeap)
  /\ UNCHANGED bCalls
  /\ UNCHANGED <<bSlicer, mergeVars, detectVars, disk, prusaVars, validateVars, allVars, buildVars>>

\* compatible_printers and version; generateConfig returns.
BambuPostProcess ==
  /\ bPc = "merged"
  /\ bConfig' = postProcess(bConfig, bCompat[bIdx], version)
  /\ bPc' = "generated"
  /\ UNCHANGED <<bCompat, bIdx, bResults, bOverrides, bError>>
  /\ bHeap' = heapPostProcess(bHeap, bCompat[bIdx], version)
  /\ UNCHANGED bCalls
  /\ UNCHANGED <<bSlicer, mergeVars, detectVars, disk, prusaVars, validateVars, allVars, buildVars>>

\* Back in generateAllConfigs: results.push({...}), next identifier.
BambuPush ==
  /\ bPc = "generated"
  /\ LET printer == bCompat[bIdx]
         printerName == extractPrinterName(printer)
         nozzleSize == extractNozzleSize(printer)
     IN IF ~Truthy(nozzleSize)
        THEN bPc' = "thrown" /\ bError' = "Could not extract nozzle size"
             /\ UNCHANGED <<bResults, bIdx, bHeap>>
        ELSE /\ bResults' = Append(bResults,
                  [material |-> material, printer |-> printerName,
                   nozzle |-> nozzleSize.v, printerString |-> printer,
                   config |-> bConfig,
                   filename |-> bambuFilename(printerName, nozzleSize.v)])
             /\ bHeap' = [bHeap EXCEPT !.results = Append(@, bHeap.config)]
             /\ bIdx' = bIdx + 1
             /\ bPc' = "loop"
             /\ UNCHANGED bError
  /\ UNCHANGED <<bCompat, bConfig, bOverrides>>
  /\ UNCHANGED bCalls
  /\ UNCHANGED <<bSlicer, mergeVars, detectVars, disk, prusaVars, validateVars, allVars, buildVars>>

\* generateAllConfigs is called once more with the same arguments, after the
\* first call returned or threw.
BambuCallAgain ==
  /\ bPc \in {"returned", "thrown"} /\ bCalls.n = 1
  /\ bCalls' = [n |-> 2, first |-> bResults, config |-> bConfig,
                refs |-> bHeap.results, pc |-> bPc, error |-> bError]
  /\ bPc' = "start"
  /\ bCompat' = <<>> /\ bIdx' = 0 /\ bResults' = <<>>
  /\ bConfig' = Null /\ bOverrides' = Null /\ bError' = "none"
  /\ bHeap' = [NoMemory EXCEPT !.heap = bHeap.heap]
  /\ UNCHANGED <<bSlicer, mergeVars, detectVars, disk, prusaVars, validateVars, allVars, buildVars>>

\* generateAllConfigs of the JSON generator on the tables of NameTables.
NamesInit ==
  /\ disk \in NamesDisks
  /\ bSlicer = "bambuslicer"
  /\ bPc = "start"
  /\ bCompat = <<>> /\ bIdx = 0 /\ bResults = <<>>
  /\ bConfig = Null /\ bOverrides = Null /\ bError = "none"
  /\ bHeap = NoMemory /\ bCalls = FirstCall

BambuNext ==
  \/ BambuStart \/ BambuReturn \/ BambuLoad \/ BambuApplyPrinter
  \/ BambuApplyNozzle \/ BambuApplyCombination \/ BambuPostProcess \/ BambuPush

(***************************************************************************)
(* The INI generator as a state machine: generateAllConfigs(material,      *)
(* "prusaslicer", version, {printer, nozzle}) and, inside it,              *)
(* generateConfig.                                                         *)
(***************************************************************************)
prusaSlicer == "prusaslicer"

\* The exported entry points of the INI generator.
PrusaEntries == {"generateAllConfigs", "generateConfig"}

PrusaInit ==
  /\ disk \in PrusaDisks
  /\ pEntry \in PrusaEntries
  /\ pPrinter \in PrinterOptions /\ pNozzle \in NozzleOptions
  /\ pPc = IF pEntry = "generateAllConfigs" THEN "start" ELSE "generate"
  /\ pConfig = Null /\ pOverrides = Null /\ pResults = <<>> /\ pError = "none"
  /\ pHeap = NoMemory /\ pCalls = FirstCall

PrusaIdle ==
  /\ pEntry = "none"
  /\ pPrinter = Undefined /\ pNozzle = Undefined
  /\ pPc = "idle"
  /\ pConfig = Null /\ pOverrides = Null /\ pResults = <<>> /\ pError = "none"
  /\ pHeap = NoMemory /\ pCalls = FirstCall

\* generateAllConfigs that throws when there is no base config.
PrusaStartThrows ==
  /\ pPc = "start"
  /\ IF ~Truthy(loadBaseConfig(disk, prusaSlicer).config)
     THEN pPc' = "thrown" /\ pError' = "Base config not found"
     ELSE pPc' = "generate" /\ UNCHANGED pError
  /\ UNCHANGED <<pEntry, pPrinter, pNozzle, pConfig, pOverrides, pResults>>
  /\ UNCHANGED <<pHeap, pCalls>>
  /\ UNCHANGED <<mergeVars, detectVars, disk, bambuVars, validateVars, allVars, buildVars>>

\* generateAllConfigs: no base config, an empty list; else generateConfig.
PrusaStart ==
  /\ pPc = "start"
  /\ pPc' = IF ~Truthy(loadBaseConfig(disk, prusaSlicer).config)
            THEN "returned" ELSE "generate"
  /\ UNCHANGED <<pEntry, pPrinter, pNozzle, pConfig, pOverrides, pResults, pError>>
  /\ UNCHANGED <<pHeap, pCalls>>
  /\ UNCHANGED <<mergeVars, detectVars, disk, bambuVars, validateVars, allVars, buildVars>>

\* generateConfig that loads the overrides as soon as one of printer and
\* nozzle is given, and applies them at once.
PrusaLoadAnyOption ==
  /\ pPc = "generate"
  /\ LET base == loadBaseConfig(disk, prusaSlicer).config
         pv == IF Truthy(pPrinter) THEN pPrinter.v ELSE ""
         nv == IF Truthy(pNozzle) THEN pNozzle.v ELSE ""
         overrides == loadAllOverrides(disk, pv, nv)
     IN IF ~Truthy(base)
          THEN pPc' = "thrown" /\ pError' = "Base config not found"
               /\ UNCHANGED <<pConfig, pOverrides, pHeap>>
        ELSE IF ~(Truthy(pPrinter) \/ Truthy(pNozzle))
          THEN pConfig' = JsonClone(base) /\ pPc' = "overridden"
               /\ pHeap' = heapLoad(pHeap, base, Null)
               /\ UNCHANGED <<pOverrides, pError>>
        ELSE IF IsThrown(overrides)
          THEN pPc' = "thrown" /\ pError' = overrides.v
               /\ UNCHANGED <<pConfig, pOverrides, pHeap>>
        ELSE /\ pConfig' = prusaApplyCombinationOverrides(
                             prusaApplyNozzleOverrides(
                               prusaApplyPrinterOverrides(JsonClone(base), overrides, pv),
                               overrides, nv),
                             overrides, pv, nv)
             /\ pOverrides' = overrides
             /\ pHeap' = heapPrusaApplyCombinationOverrides(
                          heapPrusaApplyNozzleOverrides(
                            heapPrusaApplyPrinterOverrides(
                              heapLoad(pHeap, base, overrides), pv),
                            nv),
                          pv, nv)
             /\ pPc' = "overridden"
             /\ UNCHANGED pError
  /\ UNCHANGED <<pEntry, pPrinter, pNozzle, pResults>>
  /\ UNCHANGED pCalls
  /\ UNCHANGED <<mergeVars, detectVars, disk, bambuVars, validateVars, allVars, buildVars>>

\* generateConfig up to the overrides: load and clone the base; with both a
\* printer and a nozzle, load the overrides (a failing load is thrown, and
\* generateAllConfigs throws it on).
PrusaLoad ==
  /\ pPc = "generate"
  /\ LET base == loadBaseConfig(disk, prusaSlicer).config
         overrides == loadAllOverrides(disk, pPrinter.v, pNozzle.v)
     IN IF ~Truthy(base)
          THEN pPc' = "thrown" /\ pError' = "Base config not found"
               /\ UNCHANGED <<pConfig, pOverrides, pHeap>>
        ELSE IF ~(Truthy(pPrinter) /\ Truthy(pNozzle))
          THEN pConfig' = JsonClone(base) /\ pPc' = "overridden"
               /\ pHeap' = heapLoad(pHeap, base, Null)
               /\ UNCHANGED <<pOverrides, pError>>
        ELSE IF IsThrown(overrides)
          THEN pPc' = "thrown" /\ pError' = overrides.v
               /\ UNCHANGED <<pConfig, pOverrides, pHeap>>
        ELSE /\ pConfig' = JsonClone(base)
             /\ pHeap' = heapLoad(pHeap, base, overrides)
             /\ pOverrides' = overrides
             /\ pPc' = "printer"
             /\ UNCHANGED pError
  /\ UNCHANGED <<pEntry, pPrinter, pNozzle, pResults>>
  /\ UNCHANGED pCalls
  /\ UNCHANGED <<mergeVars, detectVars, disk, bambuVars, validateVars, allVars, buildVars>>

PrusaApplyPrinter ==
  /\ pPc = "printer"
  /\ pConfig' = prusaApplyPrinterOverrides(pConfig, pOverrides, pPrinter.v)
  /\ pPc' = "nozzle"
  /\ UNCHANGED <<pEntry, pPrinter, pNozzle, pOverrides, pResults, pError>>
  /\ pHeap' = heapPrusaApplyPrinterOverrides(pHeap, pPrinter.v)
  /\ UNCHANGED pCalls
  /\ UNCHANGED <<mergeVars, detectVars, disk, bambuVars, validateVars, allVars, buildVars>>

PrusaApplyNozzle ==
  /\ pPc = "nozzle"
  /\ pConfig' = prusaApplyNozzleOverrides(pConfig, pOverrides, pNozzle.v)
  /\ pPc' = "combination"
  /\ UNCHANGED <<pEntry, pPrinter, pNozzle, pOverrides, pResults, pError>>
  /\ pHeap' = heapPrusaApplyNozzleOverrides(pHeap, pNozzle.v)
  /\ UNCHANGED pCalls
  /\ UNCHANGED <<mergeVars, detectVars, disk, bambuVars, validateVars, allVars, buildVars>>

\* After this step pConfig is the config with its overrides applied.
PrusaApplyCombination ==
  /\ pPc = "combination"
  /\ pConfig' = prusaApplyCombinationOverrides(pConfig, pOverrides,
                                               pPrinter.v, pNozzle.v)
  /\ pPc' = "overridden"
  /\ UNCHANGED <<pEntry, pPrinter, pNozzle, pOverrides, pResults, pError>>
  /\ pHeap' = heapPrusaApplyCombinationOverrides(pHeap, pPrinter.v, pNozzle.v)
  /\ UNCHANGED pCalls
  /\ UNCHANGED <<mergeVars, detectVars, disk, bambuVars, validateVars, allVars, buildVars>>

\* vendor.config_version; generateConfig returns.
PrusaVersion ==
  /\ pPc = "overridden"
  /\ pConfig' = updateVendorVersion(pConfig, version)
  /\ pPc' = "generated"
  /\ UNCHANGED <<pEntry, pPrinter, pNozzle, pOverrides, pResults, pError>>
  /\ pHeap' = heapUpdateVendorVersion(pHeap, version)
  /\ UNCHANGED pCalls
  /\ UNCHANGED <<mergeVars, detectVars, disk, bambuVars, validateVars, allVars, buildVars>>

\* Back in generateAllConfigs: the list it returns.  (A direct call of
\* generateConfig has returned pConfig at "generated".)
PrusaReturn ==
  /\ pPc = "generated" /\ pEntry = "generateAllConfigs"
  /\ pResults' = prusaResults(pConfig, material, version)
  /\ pPc' = "returned"
  /\ UNCHANGED <<pEntry, pPrinter, pNozzle, pConfig, pOverrides, pError>>
  /\ pHeap' = [pHeap EXCEPT !.results = <<pHeap.config>>]
  /\ UNCHANGED pCalls
  /\ UNCHANGED <<mergeVars, detectVars, disk, bambuVars, validateVars, allVars, buildVars>>

\* The entry point is called once more with the same arguments, after the
\* first call returned or threw.
PrusaCallAgain ==
  /\ pCalls.n = 1
  /\ \/ pPc \in {"returned", "thrown"}
     \/ pEntry = "generateConfig" /\ pPc = "generated"
  /\ pCalls' = [n |-> 2, first |-> pResults, config |-> pConfig,
                refs |-> IF pPc = "thrown" \/ pHeap.config = NoRef THEN <<>>
                        ELSE <<pHeap.config>>,
                pc |-> pPc, error |-> pError]
  /\ pPc' = IF pEntry = "generateAllConfigs" THEN "start" ELSE "generate"
  /\ pConfig' = Null /\ pOverrides' = Null /\ pResults' = <<>> /\ pError' = "none"
  /\ pHeap' = [NoMemory EXCEPT !.heap = pHeap.heap]
  /\ UNCHANGED <<pEntry, pPrinter, pNozzle>>
  /\ UNCHANGED <<mergeVars, detectVars, disk, bambuVars, validateVars, allVars, buildVars>>

PrusaNext ==
  \/ PrusaStart \/ PrusaLoad \/ PrusaApplyPrinter \/ PrusaApplyNozzle
  \/ PrusaApplyCombination \/ PrusaVersion \/ PrusaReturn

(***************************************************************************)
(* validateBambuConfig as a state machine: the argument, then the call.    *)
(***************************************************************************)
NoResult == [isValid |-> FALSE, errors |-> <<>>, warnings |-> <<>>]

ValidateInit ==
  /\ vConfig \in ValidateConfigs
  /\ vResult = NoResult
  /\ vPc = "call"

ValidateIdle ==
  /\ vConfig = EmptyObj /\ vResult = NoResult /\ vPc = "idle"

ValidateBambuCall ==
  /\ vPc = "call"
  /\ vResult' = validateBambuConfig(vConfig)
  /\ vPc' = "returned"
  /\ UNCHANGED vConfig
  /\ UNCHANGED <<mergeVars, detectVars, disk, bambuVars, prusaVars, allVars, buildVars>>

(***************************************************************************)
(* validateAll as a state machine: the materials found by getAllMaterials, *)
(* one step per iteration of its loop, then the result.                    *)
(***************************************************************************)
AllInit ==
  /\ aTree \in MaterialTrees
  /\ aIdx = 1 /\ aErrors = <<>> /\ aWarnings = <<>>
  /\ aResult = NoResult /\ aPc = "loop"

AllIdle ==
  /\ aTree = <<>> /\ aIdx = 0 /\ aErrors = <<>> /\ aWarnings = <<>>
  /\ aResult = NoResult /\ aPc = "idle"

\* One iteration: both validations of the material, then the four pushes.
ValidateAllMaterial ==
  /\ aPc = "loop" /\ aIdx <= Len(aTree)
  /\ LET mat == MaterialNames[aIdx]
         baseResult == validateMaterialBaseConfigs(mat, aTree[aIdx])
         overrideResult == validateMaterialOverrides(mat, aTree[aIdx])
     IN /\ ~overrideResult.thrown
        /\ aErrors' = aErrors \o Prefixed(mat, baseResult.errors)
                               \o Prefixed(mat, overrideResult.errors)
        /\ aWarnings' = aWarnings \o Prefixed(mat, baseResult.warnings)
                                   \o Prefixed(mat, overrideResult.warnings)
  /\ aIdx' = aIdx + 1
  /\ UNCHANGED <<aTree, aResult, aPc>>
  /\ UNCHANGED <<mergeVars, detectVars, disk, bambuVars, prusaVars, validateVars, buildVars>>

\* The iteration in which validateMaterialOverrides throws: validateAll
\* rejects with that exception.
ValidateAllReject ==
  /\ aPc = "loop" /\ aIdx <= Len(aTree)
  /\ validateMaterialOverrides(MaterialNames[aIdx], aTree[aIdx]).thrown
  /\ aPc' = "rejected"
  /\ UNCHANGED <<aTree, aIdx, aErrors, aWarnings, aResult>>
  /\ UNCHANGED <<mergeVars, detectVars, disk, bambuVars, prusaVars, validateVars, buildVars>>

ValidateAllReturn ==
  /\ aPc = "loop" /\ aIdx > Len(aTree)
  /\ aResult' = [isValid |-> aErrors = <<>>, errors |-> aErrors, warnings |-> aWarnings]
  /\ aPc' = "returned"
  /\ UNCHANGED <<aTree, aIdx, aErrors, aWarnings>>
  /\ UNCHANGED <<mergeVars, detectVars, disk, bambuVars, prusaVars, validateVars, buildVars>>

ValidateAllNext == ValidateAllMaterial \/ ValidateAllReject \/ ValidateAllReturn

(***************************************************************************)
(* scripts/build.ts as a state machine: build(options), with the loop of   *)
(* generateAllConfigs of release.ts in its place for a release; the        *)
(* generators run as the state machines above.                             *)
(***************************************************************************)
BuildInit ==
  /\ tree \in BuildTrees
  /\ printersJson \in BuildTables
  /\ options \in BuildOptionsSet
  /\ fsys = StaleOutput
  /\ mIdx = 1 /\ sIdx = 1 /\ buildPc = "start"
  /\ reports = <<>> /\ slicerResults = {} /\ saved = <<>>

BuildIdle ==
  /\ tree = <<>> /\ printersJson = <<>>
  /\ options = BuildOptions(FALSE, FALSE, FALSE, Undefined, Undefined, Undefined)
  /\ fsys = EmptyFn
  /\ mIdx = 1 /\ sIdx = 1 /\ buildPc = "idle"
  /\ reports = <<>> /\ slicerResults = {} /\ saved = <<>>

\* The slicer of the current iteration, its directory, and what
\* loadBaseConfig and validateSlicer make of it.
AtSlicer == buildPc = "slicer" /\ mIdx <= Len(tree) /\ sIdx <= Len(tree[mIdx])
slicerOfBuild == tree[mIdx][sIdx].slicer
DiskOfBuild == [tree[mIdx][sIdx].dir EXCEPT !.printersConfig = printersJson]
validationOfBuild ==
  LET base == loadBaseConfig(DiskOfBuild, slicerOfBuild)
  IN validateSlicer(material, slicerOfBuild, base.config, base.filePath)
\* if (options.slicer && options.slicer !== slicer) continue  (build.ts only)
FilteredOut ==
  ~options.release /\ Truthy(options.slicer) /\ options.slicer.v # slicerOfBuild

\* Validate first, unless the run is a dry run: the errors are printed, and
\* process.exit(1) ends the run when there is one.
\* The validation errors are printed and the build goes on.
BuildValidateAndGoOn ==
  /\ buildPc = "start"
  /\ buildPc' = "clear"
  /\ reports' = IF options.dryRun THEN reports ELSE reports \o validationErrors(tree)
  /\ UNCHANGED <<tree, printersJson, options, fsys, mIdx, sIdx, slicerResults, saved>>
  /\ UNCHANGED <<mergeVars, detectVars, disk, bambuVars, prusaVars, validateVars, allVars>>

BuildValidate ==
  /\ buildPc = "start"
  /\ buildPc' = IF ~options.dryRun /\ ~validate(tree) THEN "exit" ELSE "clear"
  /\ reports' = IF options.dryRun THEN reports ELSE reports \o validationErrors(tree)
  /\ UNCHANGED <<tree, printersJson, options, fsys, mIdx, sIdx, slicerResults, saved>>
  /\ UNCHANGED <<mergeVars, detectVars, disk, bambuVars, prusaVars, validateVars, allVars>>

BuildClear ==
  /\ buildPc = "clear"
  /\ fsys' = clearOutputDirs(fsys, tree, options.dryRun)
  /\ buildPc' = IF options.release THEN "release" ELSE "slicer"
  /\ UNCHANGED <<tree, printersJson, options, mIdx, sIdx, reports, slicerResults, saved>>
  /\ UNCHANGED <<mergeVars, detectVars, disk, bambuVars, prusaVars, validateVars, allVars>>

\* buildRelease clears again, zips/ and releases/ included.
ReleaseClear ==
  /\ buildPc = "release"
  /\ fsys' = releaseClearOutputDirs(fsys, tree, options.dryRun)
  /\ buildPc' = "slicer"
  /\ UNCHANGED <<tree, printersJson, options, mIdx, sIdx, reports, slicerResults, saved>>
  /\ UNCHANGED <<mergeVars, detectVars, disk, bambuVars, prusaVars, validateVars, allVars>>

BuildSkipSlicer ==
  /\ AtSlicer /\ FilteredOut
  /\ sIdx' = sIdx + 1
  /\ UNCHANGED <<tree, printersJson, options, fsys, mIdx, buildPc, reports,
                 slicerResults, saved>>
  /\ UNCHANGED <<mergeVars, detectVars, disk, bambuVars, prusaVars, validateVars, allVars>>

\* build.ts prints every error; the loop of release.ts prints it
\* if (verbose).
Printed(messages) == IF options.release /\ ~options.verbose THEN <<>> ELSE messages

\* The failure is reported and the loop goes on, dry run or not.
ReportAndContinue(messages) ==
  /\ reports' = reports \o Printed(messages)
  /\ sIdx' = sIdx + 1 /\ buildPc' = "slicer"

\* console.error(message); if (!options.dryRun) throw; continue
ReportAndContinueOrThrow(messages) ==
  /\ reports' = reports \o Printed(messages)
  /\ IF options.dryRun
     THEN sIdx' = sIdx + 1 /\ buildPc' = "slicer"
     ELSE buildPc' = "failed" /\ UNCHANGED sIdx

\* validateSlicer says no: no base config, or no format.
BuildRejectSlicer ==
  /\ AtSlicer /\ ~FilteredOut
  /\ ~validationOfBuild.valid
  /\ ReportAndContinueOrThrow(<<validationOfBuild.error>>)
  /\ UNCHANGED <<tree, printersJson, options, fsys, mIdx, slicerResults, saved>>
  /\ UNCHANGED <<mergeVars, detectVars, disk, bambuVars, prusaVars, validateVars, allVars>>

\* getGenerator(format) and the call of its generateAllConfigs.
BuildGenerate ==
  /\ AtSlicer /\ ~FilteredOut
  /\ validationOfBuild.valid
  /\ disk' = DiskOfBuild
  /\ IF validationOfBuild.format = "json"
     THEN /\ bSlicer' = slicerOfBuild /\ bPc' = "start"
          /\ bCompat' = <<>> /\ bIdx' = 0 /\ bResults' = <<>>
          /\ bConfig' = Null /\ bOverrides' = Null /\ bError' = "none"
          /\ bHeap' = NoMemory /\ bCalls' = FirstCall
          /\ pEntry' = "none" /\ pPc' = "idle"
          /\ pPrinter' = Undefined /\ pNozzle' = Undefined
          /\ pConfig' = Null /\ pOverrides' = Null /\ pResults' = <<>>
          /\ pError' = "none"
          /\ pHeap' = NoMemory /\ pCalls' = FirstCall
     ELSE /\ pEntry' = "generateAllConfigs" /\ pPc' = "start"
          /\ pPrinter' = (IF options.release THEN Undefined ELSE options.printer)
          /\ pNozzle' = (IF options.release THEN Undefined ELSE options.nozzle)
          /\ pConfig' = Null /\ pOverrides' = Null /\ pResults' = <<>>
          /\ pError' = "none"
          /\ pHeap' = NoMemory /\ pCalls' = FirstCall
          /\ bSlicer' = "none" /\ bPc' = "idle"
          /\ bCompat' = <<>> /\ bIdx' = 0 /\ bResults' = <<>>
          /\ bConfig' = Null /\ bOverrides' = Null /\ bError' = "none"
          /\ bHeap' = NoMemory /\ bCalls' = FirstCall
  /\ buildPc' = "generating"
  /\ UNCHANGED <<tree, printersJson, options, fsys, mIdx, sIdx, reports,
                 slicerResults, saved>>
  /\ UNCHANGED <<mergeVars, detectVars, validateVars, allVars>>

\* The generator that runs, and what its generateAllConfigs has come to.
GeneratorIsJson == bPc # "idle"
GeneratorThrew == IF GeneratorIsJson THEN bPc = "thrown" ELSE pPc = "thrown"
GeneratorReturned == IF GeneratorIsJson THEN bPc = "returned" ELSE pPc = "returned"
GeneratorError == IF GeneratorIsJson THEN bError ELSE pError
GeneratorConfigs == IF GeneratorIsJson THEN bResults ELSE pResults
PrinterOf(config) ==
  IF "printer" \in DOMAIN config THEN Str(config.printer) ELSE Undefined
NozzleOf(config) ==
  IF "nozzle" \in DOMAIN config THEN Str(config.nozzle) ELSE Undefined
\* configs.filter(...) of build.ts; release.ts takes every config.
RECURSIVE FilterConfigs(_)
FilterConfigs(configs) ==
  IF configs = <<>> THEN <<>>
  ELSE LET c == Head(configs)
           keep ==
             \/ options.release
             \/ /\ ~(Truthy(options.printer) /\ PrinterOf(c) # options.printer)
                /\ ~(Truthy(options.nozzle) /\ NozzleOf(c) # options.nozzle)
       IN (IF keep THEN <<c>> ELSE <<>>) \o FilterConfigs(Tail(configs))
FailurePrefix ==
  (IF options.release THEN "Failed to generate " ELSE "Failed to build ")
  \o slicerOfBuild \o " configs for " \o material \o ": "

\* The loop over the configs: saveConfig of the generator for each of them,
\* up to the first one that throws.
RECURSIVE SaveAll(_, _, _)
SaveAll(fs, configs, done) ==
  IF configs = <<>> THEN [thrown |-> FALSE, fs |-> fs, saved |-> done]
  ELSE LET outputDir == JoinPath(OutputBase, slicerOfBuild)
           r == IF GeneratorIsJson
                THEN saveConfig(fs, Head(configs), outputDir, options.dryRun)
                ELSE prusaSaveConfig(fs, Head(configs), outputDir, options.dryRun)
       IN IF r.thrown THEN [thrown |-> TRUE, fs |-> r.fs, saved |-> done]
          ELSE SaveAll(r.fs, Tail(configs),
                 Append(done, [material |-> material, slicer |-> slicerOfBuild,
                               printer |-> PrinterOf(Head(configs)),
                               filename |-> Head(configs).filename,
                               config |-> Head(configs).config,
                               path |-> r.path]))

\* generateAllConfigs of the generator throws: the catch of the driver.
BuildGenerationFailed ==
  /\ buildPc = "generating" /\ GeneratorThrew
  /\ ReportAndContinueOrThrow(<<FailurePrefix \o GeneratorError>>)
  /\ UNCHANGED <<tree, printersJson, options, fsys, mIdx, slicerResults, saved>>
  /\ UNCHANGED <<mergeVars, detectVars, disk, bambuVars, prusaVars, validateVars, allVars>>

\* No config is left: reported; thrown, caught and reported again unless
\* the run is a dry run.
BuildNoConfigs ==
  /\ buildPc = "generating" /\ GeneratorReturned
  /\ FilterConfigs(GeneratorConfigs) = <<>>
  /\ LET error == "No configs generated for " \o material \o "/" \o slicerOfBuild
     IN ReportAndContinueOrThrow(
          IF options.dryRun THEN <<error>> ELSE <<error, FailurePrefix \o error>>)
  /\ UNCHANGED <<tree, printersJson, options, fsys, mIdx, slicerResults, saved>>
  /\ UNCHANGED <<mergeVars, detectVars, disk, bambuVars, prusaVars, validateVars, allVars>>

\* Save configs; slicerResults.set(slicer, savedCount).
BuildSave ==
  /\ buildPc = "generating" /\ GeneratorReturned
  /\ FilterConfigs(GeneratorConfigs) # <<>>
  /\ LET r == SaveAll(fsys, FilterConfigs(GeneratorConfigs), <<>>)
     IN /\ fsys' = r.fs
        /\ saved' = saved \o r.saved
        /\ IF r.thrown
           THEN /\ ReportAndContinueOrThrow(<<FailurePrefix \o "TypeError">>)
                /\ UNCHANGED slicerResults
           ELSE /\ slicerResults' = slicerResults \cup {slicerOfBuild}
                /\ sIdx' = sIdx + 1 /\ buildPc' = "slicer"
                /\ UNCHANGED reports
  /\ UNCHANGED <<tree, printersJson, options, mIdx>>
  /\ UNCHANGED <<mergeVars, detectVars, disk, bambuVars, prusaVars, validateVars, allVars>>

\* After the slicers of a material: at least one of them must have produced
\* configs.
BuildEndMaterial ==
  /\ buildPc = "slicer" /\ mIdx <= Len(tree) /\ sIdx > Len(tree[mIdx])
  /\ IF slicerResults = {}
     THEN /\ reports' = reports \o
                 Printed(<<"No configs were generated for material: " \o material>>)
          /\ IF options.dryRun
             THEN mIdx' = mIdx + 1 /\ sIdx' = 1 /\ UNCHANGED buildPc
             ELSE buildPc' = "failed" /\ UNCHANGED <<mIdx, sIdx>>
     ELSE /\ mIdx' = mIdx + 1 /\ sIdx' = 1
          /\ UNCHANGED <<buildPc, reports>>
  /\ slicerResults' = {}
  /\ UNCHANGED <<tree, printersJson, options, fsys, saved>>
  /\ UNCHANGED <<mergeVars, detectVars, disk, bambuVars, prusaVars, validateVars, allVars>>

\* After the last material: "Build complete!", or the rest of buildRelease.
BuildComplete ==
  /\ buildPc = "slicer" /\ mIdx > Len(tree)
  /\ buildPc' = IF options.release THEN "manifest" ELSE "done"
  /\ UNCHANGED <<tree, printersJson, options, fsys, mIdx, sIdx, reports,
                 slicerResults, saved>>
  /\ UNCHANGED <<mergeVars, detectVars, disk, bambuVars, prusaVars, validateVars, allVars>>

\* createManifest, the zip of each printer, and the changelog.
manifestPath == JoinPath(JoinPath(OutputBase, "releases"), "manifest-" \o version \o ".json")
generateReleaseUrl(filename) ==
  "https://github.com/OWNER/REPO/releases/download/v" \o version \o "/" \o filename
ManifestOf(entries) ==
  Obj(("version" :> Str(version))
      @@ ("configs" :> Arr([i \in 1..Len(entries) |->
             Obj(("slicer" :> Str(entries[i].slicer))
                 @@ ("material" :> Str(entries[i].material))
                 @@ ("printer" :> entries[i].printer)
                 @@ ("filename" :> Str(entries[i].filename))
                 @@ ("url" :> Str(generateReleaseUrl(entries[i].filename))))])))
createManifest(fs, entries, dryRun) ==
  IF dryRun THEN fs
  ELSE WriteFile(Mkdir(fs, JoinPath(OutputBase, "releases")), manifestPath,
                 JsonText(ManifestOf(entries)))
\* The printers that get a zip, and the files of the zip of a printer.
prusaPrinters ==
  {printersJson[i].name : i \in {j \in 1..Len(printersJson) :
                                   Contains(printersJson[j].slicers, "prusaslicer")}}
allPrinters(entries) ==
  {entries[i].printer.v : i \in {j \in 1..Len(entries) : Truthy(entries[j].printer)}}
  \cup prusaPrinters
allPrinterConfigs(entries, printer) ==
  {entries[i].filename : i \in {j \in 1..Len(entries) :
     \/ Truthy(entries[j].printer) /\ entries[j].printer.v = printer
     \/ /\ ~Truthy(entries[j].printer) /\ printer \in prusaPrinters
        /\ entries[j].slicer = "prusaslicer"}}
zipPath(printer) ==
  JoinPath(JoinPath(OutputBase, "zips"),
           "addnorth_" \o ReplaceSpaceRuns(printer, "-") \o "_" \o version \o ".zip")
ZipOf(filenames) == [t |-> "zip", v |-> filenames]
RECURSIVE createPrinterZips(_, _, _, _)
createPrinterZips(fs, entries, printers, dryRun) ==
  IF printers = {} THEN fs
  ELSE LET printer == CHOOSE printer \in printers : TRUE
           files == allPrinterConfigs(entries, printer)
       IN createPrinterZips(
            IF dryRun \/ files = {} THEN fs
            ELSE WriteFile(Mkdir(fs, JoinPath(OutputBase, "zips")), zipPath(printer),
                           ZipOf(files)),
            entries, printers \ {printer}, dryRun)
\* if (!dryRun) await updateChangelogFile(version, changelog)
updateChangelog(fs, dryRun) ==
  IF dryRun THEN fs ELSE WriteFile(fs, "CHANGELOG.md", [t |-> "markdown", v |-> version])

ReleaseFinish ==
  /\ buildPc = "manifest"
  /\ fsys' = updateChangelog(
               createPrinterZips(createManifest(fsys, saved, options.dryRun),
                                 saved, allPrinters(saved), options.dryRun),
               options.dryRun)
  /\ buildPc' = "done"
  /\ UNCHANGED <<tree, printersJson, options, mIdx, sIdx, reports, slicerResults, saved>>
  /\ UNCHANGED <<mergeVars, detectVars, disk, bambuVars, prusaVars, validateVars, allVars>>

BuildNext ==
  \/ BuildValidate \/ BuildClear \/ ReleaseClear \/ BuildSkipSlicer
  \/ BuildRejectSlicer \/ BuildGenerate \/ BuildGenerationFailed \/ BuildNoConfigs
  \/ BuildSave \/ BuildEndMaterial \/ BuildComplete \/ ReleaseFinish
  \/ BambuNext \/ PrusaNext

(***************************************************************************)
(* One call of the JSON generateConfig, with the three override loads of   *)
(* loadAllOverrides settling in any order.                                 *)
(***************************************************************************)
NoLoads ==
  [pc |-> "idle", printer |-> "", started |-> FALSE, settled |-> EmptyFn,
   order |-> <<>>, promise |-> "pending", rejectedBy |-> "none",
   overrides |-> Null, config |-> Null, error |-> "none"]
LoadsIdle == loads = NoLoads
\* The materials whose table of printers has two printers.
LoadsDisks == {d \in BambuDisks : Len(d.printersConfig) = 2}
LoadsInit ==
  /\ disk \in LoadsDisks
  /\ loads \in {[NoLoads EXCEPT !.pc = "start", !.printer = p] :
                  p \in Elems(compatiblePrintersOf(disk.printersConfig))}

\* generateConfig up to the call of loadAllOverrides, which starts the three
\* loads.
LoadsStart ==
  /\ loads.pc = "start"
  /\ LET base == loadBaseConfig(disk, "bambuslicer").config
         nozzleSize == extractNozzleSize(loads.printer)
     IN loads' =
          IF ~Truthy(base)
          THEN [loads EXCEPT !.pc = "thrown", !.error = "Base config not found"]
          ELSE IF ~Truthy(nozzleSize)
          THEN [loads EXCEPT !.pc = "thrown", !.error = "Could not extract nozzle size"]
          ELSE [loads EXCEPT !.pc = "awaiting", !.started = TRUE]
  /\ UNCHANGED <<callVars, heapVars>>
  /\ UNCHANGED <<detectVars, disk, bambuVars, prusaVars, validateVars, allVars, buildVars>>

\* One of the loads settles, and Promise.all reacts to it.  The loads still
\* pending when Promise.all rejects settle later.
LoadSettles(name) ==
  /\ loads.started /\ loads.pc \in {"awaiting", "thrown"}
  /\ name \notin DOMAIN loads.settled
  /\ LET value == overrideLoad(disk, name, extractPrinterName(loads.printer),
                               extractNozzleSize(loads.printer).v)
         settled == (name :> value) @@ loads.settled
         promise == promiseAll(loads.promise, settled, value)
     IN loads' = [loads EXCEPT
          !.settled = settled,
          !.order = Append(@, name),
          !.promise = promise,
          !.rejectedBy = IF loads.promise = "pending" /\ promise = "rejected"
                         THEN name ELSE @]
  /\ UNCHANGED <<callVars, heapVars>>
  /\ UNCHANGED <<detectVars, disk, bambuVars, prusaVars, validateVars, allVars, buildVars>>

\* generateConfig after the await, when loadAllOverrides returned.
LoadsResume ==
  /\ loads.pc = "awaiting" /\ loads.promise = "fulfilled"
  /\ LET base == loadBaseConfig(disk, "bambuslicer").config
         printerName == extractPrinterName(loads.printer)
         nozzleSize == extractNozzleSize(loads.printer).v
         overrides == promiseAllValues(loads.settled, loads.order)
     IN loads' = [loads EXCEPT
          !.pc = "generated",
          !.overrides = overrides,
          !.config =
            postProcess(
              applyCombinationOverrides(
                applyNozzleOverrides(
                  applyPrinterOverrides(JsonClone(base), overrides, printerName),
                  overrides, nozzleSize),
                overrides, printerName, nozzleSize),
              loads.printer, version)]
  /\ UNCHANGED <<callVars, heapVars>>
  /\ UNCHANGED <<detectVars, disk, bambuVars, prusaVars, validateVars, allVars, buildVars>>

\* generateConfig after the await, when loadAllOverrides rejected.
LoadsReject ==
  /\ loads.pc = "awaiting" /\ loads.promise = "rejected"
  /\ loads' = [loads EXCEPT !.pc = "thrown",
                            !.error = loads.settled[loads.rejectedBy].v]
  /\ UNCHANGED <<callVars, heapVars>>
  /\ UNCHANGED <<detectVars, disk, bambuVars, prusaVars, validateVars, allVars, buildVars>>

LoadsNext ==
  \/ LoadsStart
  \/ \E name \in LoadNames : LoadSettles(name)
  \/ LoadsResume
  \/ LoadsReject

\* The initial states of the specification that runs one of the parts;
\* the variables of the other parts rest.
InitOf(part) ==
  /\ IF part = "merge" THEN MergeInit ELSE MergeIdle
  /\ IF part = "heap" THEN HeapInit ELSE HeapIdle
  /\ IF part = "loads" THEN LoadsInit ELSE LoadsIdle
  /\ IF part = "detect" THEN DetectInit
     ELSE IF part = "base" THEN BaseInit ELSE DetectIdle
  /\ IF part = "bambu" THEN BambuInit
     ELSE IF part = "names" THEN NamesInit ELSE BambuIdle
  /\ IF part = "prusa" THEN PrusaInit ELSE PrusaIdle
  /\ IF part = "validate" THEN ValidateInit ELSE ValidateIdle
  /\ IF part = "validateAll" THEN AllInit ELSE AllIdle
  /\ IF part = "build" THEN BuildInit ELSE BuildIdle
  /\ part \in {"merge", "heap", "detect", "validate", "validateAll", "build"} => disk = IdleDisk

SpecMerge == InitOf("merge") /\ [][DeepMergeCall]_vars
SpecHeap == InitOf("heap") /\ [][HeapNext]_vars
SpecLoads == InitOf("loads") /\ [][LoadsNext]_vars
SpecDetect == InitOf("detect") /\ [][DetectFormatCall]_vars
SpecBase == InitOf("base") /\ [][BaseNext]_vars
SpecBambu == InitOf("bambu") /\ [][BambuNext]_vars
SpecNames == InitOf("names") /\ [][BambuNext]_vars
SpecPrusa == InitOf("prusa") /\ [][PrusaNext]_vars
\* Either generator, called twice with the same arguments.
TwiceNext == BambuNext \/ PrusaNext \/ BambuCallAgain \/ PrusaCallAgain
SpecTwice == (InitOf("bambu") \/ InitOf("prusa")) /\ [][TwiceNext]_vars
SpecValidate == InitOf("validate") /\ [][ValidateBambuCall]_vars
SpecValidateAll == InitOf("validateAll") /\ [][ValidateAllNext]_vars
SpecBuild == InitOf("build") /\ [][BuildNext]_vars

(***************************************************************************)
(* Claims about the merge engine (checked under SpecMerge).                *)
(***************************************************************************)
FirstIndex(seq, x) ==
  CHOOSE i \in 1..Len(seq) : seq[i] = x /\ \A j \in 1..(i - 1) : seq[j] # x
\* r is c with its duplicates removed, in the order of first occurrences.
IsDedupOf(r, c) ==
  /\ \A i, j \in 1..Len(r) : i # j => r[i] # r[j]
  /\ Elems(r) = Elems(c)
  /\ \A i, j \in 1..Len(r) : i < j => FirstIndex(c, r[i]) < FirstIndex(c, r[j])

\* The keys on which deepMerge(t, s, ..) descends.
BothObjects(t, s) ==
  {k \in DOMAIN t.v \cap DOMAIN s.v : IsObj(t.v[k]) /\ IsObj(s.v[k])}

ArrayRule(t, s, r, strategy) ==
  \A k \in DOMAIN s.v :
    IsArr(s.v[k]) /\ (k \notin DOMAIN t.v \/ IsArr(t.v[k])) =>
      LET old == IF k \in DOMAIN t.v THEN t.v[k].v ELSE <<>>
          both == old \o s.v[k].v
      IN /\ k \in DOMAIN r.v
         /\ IsArr(r.v[k])
         /\ strategy = "replace" => r.v[k].v = s.v[k].v
         /\ strategy = "merge" => r.v[k].v = both
         /\ strategy = "unique" => IsDedupOf(r.v[k].v, both)

RECURSIVE ArrayRuleDeep(_, _, _, _)
ArrayRuleDeep(t, s, r, strategy) ==
  /\ ArrayRule(t, s, r, strategy)
  /\ \A k \in BothObjects(t, s) :
       ArrayRuleDeep(t.v[k], s.v[k], r.v[k], strategy)

ArrOf(seq) == Arr([i \in 1..Len(seq) |-> Num(seq[i])])
OneKey(x) == Obj([k \in {"a"} |-> x])
StrategyGiven == IF mOptions = EmptyFn THEN "replace" ELSE mOptions["arrayStrategy"]

\* C7: for a key whose source value is an array (the target's being an array,
\* or absent), deepMerge stores the source array under replace (also when no
\* strategy is given), target followed by source under merge, and that
\* concatenation without its later duplicates under unique, at every depth;
\* [1,2] and [2,3] give [2,3], [1,2,2,3] and [1,2,3].
C7_ArrayStrategies ==
  (mPc = "returned" /\ IsObj(mResult)) =>
    /\ ArrayRuleDeep(mTarget, mSource, mResult, StrategyGiven)
    /\ (mTarget = OneKey(ArrOf(<<1, 2>>)) /\ mSource = OneKey(ArrOf(<<2, 3>>))) =>
         mResult = OneKey(ArrOf(CASE StrategyGiven = "replace" -> <<2, 3>>
                                  [] StrategyGiven = "merge" -> <<1, 2, 2, 3>>
                                  [] StrategyGiven = "unique" -> <<1, 2, 3>>))

C7_Witness ==
  /\ mPc = "returned"
  /\ mTarget = OneKey(ArrOf(<<1, 2>>))
  /\ mSource = OneKey(ArrOf(<<2, 3>>))
  /\ mOptions = [k \in {"arrayStrategy"} |-> "unique"]
  /\ mResult = OneKey(ArrOf(<<1, 2, 3>>))

ReplaceRule(t, s, r) ==
  \A k \in DOMAIN s.v :
    LET sv == s.v[k] IN
    (/\ ~IsNull(sv) /\ ~IsUndefined(sv) /\ ~IsArr(sv)
     /\ ~(IsObj(sv) /\ k \in DOMAIN t.v /\ IsObj(t.v[k])))
      => k \in DOMAIN r.v /\ r.v[k] = sv

\* Where both values are objects the result is no outright replacement:
\* it is an object that still has the target's keys the source does not set.
RecurseRule(t, s, r) ==
  \A k \in BothObjects(t, s) :
    /\ IsObj(r.v[k])
    /\ \A j \in DOMAIN t.v[k].v \ DOMAIN s.v[k].v :
         j \in DOMAIN r.v[k].v /\ r.v[k].v[j] = t.v[k].v[j]

RECURSIVE ReplaceRuleDeep(_, _, _)
ReplaceRuleDeep(t, s, r) ==
  /\ ReplaceRule(t, s, r)
  /\ RecurseRule(t, s, r)
  /\ \A k \in BothObjects(t, s) : ReplaceRuleDeep(t.v[k], s.v[k], r.v[k])

\* C8: deepMerge descends into a key only when the source value and the
\* target value are both non-array objects; every other non-null, non-array
\* source value replaces the target value outright, type changes included.
C8_RecurseOrReplace ==
  (mPc = "returned" /\ IsObj(mResult)) => ReplaceRuleDeep(mTarget, mSource, mResult)

\* Key "a" is merged by recursion (the target's nested "b" survives) while
\* under key "b" a scalar replaces an array.
C8_Witness ==
  /\ mPc = "returned"
  /\ mTarget = Obj([k \in {"a", "b"} |->
                     IF k = "a" THEN Obj([j \in {"b"} |-> Num(1)])
                     ELSE ArrOf(<<2, 3>>)])
  /\ mSource = Obj([k \in {"a", "b"} |->
                     IF k = "a" THEN Obj([j \in {"a"} |-> ArrOf(<<2, 3>>)])
                     ELSE Num(1)])
  /\ mResult = Obj([k \in {"a", "b"} |->
                     IF k = "a"
                     THEN Obj([j \in {"a", "b"} |->
                                IF j = "a" THEN ArrOf(<<2, 3>>) ELSE Num(1)])
                     ELSE Num(1)])

Skipped(s) ==
  {k \in DOMAIN s.v : IsNull(s.v[k]) \/ IsUndefined(s.v[k])}

FrameRule(t, s, r) ==
  /\ DOMAIN r.v = DOMAIN t.v \cup (DOMAIN s.v \ Skipped(s))
  /\ \A k \in DOMAIN t.v :
       (k \notin DOMAIN s.v \/ k \in Skipped(s)) => r.v[k] = t.v[k]

RECURSIVE FrameRuleDeep(_, _, _)
FrameRuleDeep(t, s, r) ==
  /\ FrameRule(t, s, r)
  /\ \A k \in BothObjects(t, s) : FrameRuleDeep(t.v[k], s.v[k], r.v[k])

\* C9: deepMerge keeps the target's value for every key that source lacks or
\* sets to null/undefined, at every depth it descends to, and removes no key:
\* the result's keys are the target's keys and the source's non-null keys.
C9_TargetKept ==
  (mPc = "returned" /\ IsObj(mResult)) => FrameRuleDeep(mTarget, mSource, mResult)

\* A null at the top level and a null one level down, both skipped.
C9_Witness ==
  /\ mPc = "returned"
  /\ mTarget = Obj([k \in {"a", "b"} |->
                     IF k = "a" THEN Obj([j \in {"a"} |-> Num(1)])
                     ELSE ArrOf(<<2, 3>>)])
  /\ mSource = Obj([k \in {"a", "b"} |->
                     IF k = "a" THEN Obj([j \in {"a", "b"} |-> Null])
                     ELSE Null])
  /\ mResult = mTarget

(***************************************************************************)
(* Claims about the format registry (checked under SpecDetect).            *)
(***************************************************************************)
PathSupplied == Truthy(dPath)
KnownExtension ==
  PathSupplied /\ (EndsWith(dPath.v, ".ini") \/ EndsWith(dPath.v, ".json"))
ByExtension ==
  IF EndsWith(dPath.v, ".ini") THEN "ini"
  ELSE IF EndsWith(dPath.v, ".json") THEN "json" ELSE "null"

\* C10 as stated: whenever a path is supplied the extension alone decides
\* (.ini gives ini, .json gives json), whatever the config content is.
C10_AsStated ==
  (dPc = "returned" /\ PathSupplied) =>
    dResult = ByExtension /\ dResultOther = ByExtension

\* C10, amended: a supplied path that ends in .ini or .json decides alone
\* (ini, json) and the content is not consulted: two configs with that path
\* get the same answer.  Any other path leaves the decision to the content.
C10_KnownExtensionDecides ==
  (dPc = "returned" /\ KnownExtension) =>
    dResult = ByExtension /\ dResultOther = ByExtension

\* An INI-looking config and an array, both under a .json path, are json.
C10_Witness ==
  /\ dPc = "returned"
  /\ dPath = Str("materials/pla/bambuslicer/base.json")
  /\ dConfig = Obj([k \in {"vendor"} |-> EmptyObj])
  /\ dOther = Arr(<<>>)
  /\ dResult = "json" /\ dResultOther = "json"

(***************************************************************************)
(* Claims about the JSON generator (checked under SpecBambu).              *)
(***************************************************************************)
\* The identifier being generated, and what generateConfig extracts from it.
CurrentPrinter == bCompat[bIdx]
CurrentName == extractPrinterName(CurrentPrinter)
CurrentSize == extractNozzleSize(CurrentPrinter).v

\* The fragment a file holds under a key; the empty fragment when the file
\* or the key is absent.
FragmentIn(file, key) ==
  IF file.s = "ok" /\ IsObj(file.c) /\ key \in DOMAIN file.c.v
  THEN file.c.v[key] ELSE EmptyObj
\* The content of a combination file; the empty fragment when it is absent.
FragmentOfFile(dir, name) ==
  IF name \in DOMAIN dir /\ dir[name].s = "ok" THEN dir[name].c ELSE EmptyObj

\* The fragments generateConfig selects for the current identifier:
\* printers.json under the printer name, nozzles.json under the nozzle size
\* it extracted, and the combination file it read.
SelectedP == FragmentIn(disk.printers, CurrentName)
SelectedN == FragmentIn(disk.nozzles, CurrentSize)
SelectedC ==
  FragmentOfFile(disk.combinations, CurrentName \o "-" \o CurrentSize \o ".json")
BaseOnDisk == disk.baseJson.c

Sets(fragment, k) == k \in DOMAIN fragment.v /\ ~IsNull(fragment.v[k])
\* The most specific layer that sets k decides, unless it holds an object
\* (which is merged with the layers below).
Precedence(B, P, N, C, config) ==
  \A k \in DOMAIN B.v \cup DOMAIN P.v \cup DOMAIN N.v \cup DOMAIN C.v :
    LET top == IF Sets(C, k) THEN C.v[k]
               ELSE IF Sets(N, k) THEN N.v[k]
               ELSE IF Sets(P, k) THEN P.v[k]
               ELSE IF k \in DOMAIN B.v THEN B.v[k] ELSE Undefined
    IN (~IsObj(top) /\ ~IsUndefined(top)) => Get(config, k) = top

\* C1: the config generateConfig has resolved before it sets
\* compatible_printers and version is deepMerge(deepMerge(deepMerge(B, P), N), C)
\* for the base B and the printer, nozzle and combination fragments P, N, C
\* it selected; for a key several of them set, the combination's value wins
\* over the nozzle's, the nozzle's over the printer's, the printer's over the
\* base's.
C1_MergeOrder ==
  bPc = "merged" =>
    /\ bConfig = deepMerge(deepMerge(deepMerge(BaseOnDisk, SelectedP, EmptyFn),
                                     SelectedN, EmptyFn),
                           SelectedC, EmptyFn)
    /\ Precedence(BaseOnDisk, SelectedP, SelectedN, SelectedC, bConfig)

\* All four layers set perimeter_speed (60, 10, 20, 30); 30 is kept.
C1_Witness ==
  /\ bPc = "merged"
  /\ BaseOnDisk = FullBase
  /\ SelectedP = PrinterFragments[2]
  /\ SelectedN = NozzleFragments[2]
  /\ SelectedC = CombinationFragments[1]
  /\ Get(bConfig, "perimeter_speed") = Num(30)
  /\ Get(bConfig, "retraction") = Obj(("length" :> Num(2)) @@ ("speed" :> Num(2)))

\* The nozzle strings of the capability table that gave artifact r.
TableNozzlesOf(r) ==
  {n \in UNION {Elems(disk.printersConfig[i].nozzles) :
                  i \in {i \in 1..Len(disk.printersConfig) :
                           disk.printersConfig[i].name = r.printer}} :
     n = r.nozzle \o "mm"}

IsScalar(x) == x.t \in {"num", "str", "bool"}

\* C2: for a printer whose table entry lists nozzle n (say "0.4mm"), the
\* fragment nozzles.json holds under the key n is applied to that printer's
\* artifact: with no combination override on top, each scalar the fragment
\* sets is the artifact's value (perimeter_speed = 50 in the round trip).
C2_NozzleFragmentApplied ==
  (bPc = "returned" /\ disk.nozzles.s = "ok" /\ disk.combinations = EmptyFn) =>
    \A i \in 1..Len(bResults) :
      \A n \in TableNozzlesOf(bResults[i]) \cap DOMAIN disk.nozzles.c.v :
        \A k \in DOMAIN disk.nozzles.c.v[n].v \ {"compatible_printers", "version"} :
          IsScalar(disk.nozzles.c.v[n].v[k]) =>
            Get(bResults[i].config, k) = disk.nozzles.c.v[n].v[k]

Supports(printer) == \E i \in 1..Len(printer.slicers) : printer.slicers[i] = bSlicer
\* The (printer, nozzle) pairs of the table, as positions in it.
TablePairs ==
  {<<i, j>> \in (1..Len(disk.printersConfig)) \X (1..4) :
     j <= Len(disk.printersConfig[i].nozzles)}
SupportedPairs == {pr \in TablePairs : Supports(disk.printersConfig[pr[1]])}
IsArtifactOf(r, pr) ==
  /\ r.printer = disk.printersConfig[pr[1]].name
  /\ r.nozzle \o "mm" = disk.printersConfig[pr[1]].nozzles[pr[2]]

\* C3: when the base config is present, the list generateAllConfigs returns
\* holds exactly one artifact for each (printer, nozzle) pair of the table
\* whose printer lists the slicer being generated, and none for any other
\* printer.
C3_OnePerPair ==
  (bPc = "returned" /\ Truthy(loadBaseConfig(disk, bSlicer).config)) =>
    /\ \A pr \in SupportedPairs :
         Cardinality({i \in 1..Len(bResults) : IsArtifactOf(bResults[i], pr)}) = 1
    /\ \A i \in 1..Len(bResults) :
         \E pr \in SupportedPairs : IsArtifactOf(bResults[i], pr)
    /\ Len(bResults) = Cardinality(SupportedPairs)

OwnIdentifier(r) == r.printer \o " " \o r.nozzle \o " nozzle"

\* C4: every config the JSON generator returns has compatible_printers equal
\* to the one-element array of its own "{printer} {size} nozzle" identifier,
\* whatever the base or an override put there.
C4_OnlyOwnPrinter ==
  /\ \A i \in 1..Len(bResults) :
       /\ Get(bResults[i].config, "compatible_printers")
            = Arr(<<Str(OwnIdentifier(bResults[i]))>>)
       /\ bResults[i].printerString = OwnIdentifier(bResults[i])
  /\ bPc = "generated" =>
       Get(bConfig, "compatible_printers") = Arr(<<Str(CurrentPrinter)>>)

\* The base lists two printers and the printer override two others.
C4_Witness ==
  /\ bPc = "returned"
  /\ Len(bResults) = 1
  /\ BaseOnDisk = FullBase
  /\ disk.printers = File(Obj("X" :> PrinterFragments[3]))
  /\ Get(bResults[1].config, "compatible_printers") = StrArr(<<"X 0.4 nozzle">>)

(***************************************************************************)
(* Claims about the INI generator (checked under SpecPrusa).               *)
(***************************************************************************)
IniBaseOnDisk == loadBaseConfig(disk, prusaSlicer).config
BaseExists == Truthy(IniBaseOnDisk)
OverridesRequested == Truthy(pPrinter) /\ Truthy(pNozzle)
\* An override file generateConfig reads cannot be loaded.
OverrideLoadFails ==
  \/ disk.printers.s \in {"malformed", "eio"}
  \/ disk.nozzles.s \in {"malformed", "eio"}
  \/ \E name \in DOMAIN disk.combinations :
       /\ name = pPrinter.v \o "-" \o pNozzle.v \o ".json"
       /\ disk.combinations[name].s \in {"malformed", "eio"}

\* C5: with a base config present, the list INI generateAllConfigs returns
\* has exactly one artifact, named addnorth_{material}_{version}.ini,
\* whatever override files exist and whatever printer and nozzle are asked
\* for; the only way it does not return is the hard error of an override
\* file that cannot be loaded.
C5_OneArtifact ==
  /\ (pPc = "returned" /\ BaseExists) =>
       /\ Len(pResults) = 1
       /\ pResults[1].material = material
       /\ pResults[1].filename = "addnorth_pla_v1.2.0.ini"
  /\ (pPc = "thrown" /\ BaseExists) => (OverridesRequested /\ OverrideLoadFails)

\* Printer and nozzle asked for, three override files present, one artifact.
C5_Witness ==
  /\ pPc = "returned"
  /\ pPrinter = Str("MK4") /\ pNozzle = Str("0.4mm")
  /\ disk.printers.s = "ok" /\ disk.nozzles.s = "ok"
  /\ Cardinality(DOMAIN disk.combinations) = 2
  /\ Len(pResults) = 1
  /\ pResults[1].filename = "addnorth_pla_v1.2.0.ini"

\* The fragments the overrides hold for the printer and nozzle asked for.
IniP == FragmentIn(disk.printers, pPrinter.v)
IniN == FragmentIn(disk.nozzles, pNozzle.v)
IniC == FragmentOfFile(disk.combinations, pPrinter.v \o "-" \o pNozzle.v \o ".json")

WithoutMm(n) ==
  IF \E i \in 1..Len(n) - 1 : SubSeq(n, i, i + 1) = "mm"
  THEN LET i == CHOOSE i \in 1..Len(n) - 1 :
                  /\ SubSeq(n, i, i + 1) = "mm"
                  /\ \A j \in 1..i - 1 : SubSeq(n, j, j + 1) # "mm"
       IN SubSeq(n, 1, i - 1) \o SubSeq(n, i + 2, Len(n))
  ELSE n
HasSubstring(name, t) ==
  \E i \in 1..Len(name) - Len(t) + 1 : SubSeq(name, i, i + Len(t) - 1) = t
HasNozzleToken(name) ==
  HasSubstring(name, WithoutMm(pNozzle.v) \o "nozzle") \/ HasSubstring(name, pNozzle.v)
GetsPrinter(name) == HasSubstring(name, pPrinter.v) /\ SubSeq(name, 1, 6) = "print:"
GetsNozzle(name) == HasNozzleToken(name)
GetsCombination(name) == HasSubstring(name, pPrinter.v) /\ HasNozzleToken(name)

\* What a section holds under key k once the fragments it receives have
\* been assigned in the order printer, nozzle, combination.
Assigned(name, section, k) ==
  IF GetsCombination(name) /\ k \in DOMAIN IniC.v THEN IniC.v[k]
  ELSE IF GetsNozzle(name) /\ k \in DOMAIN IniN.v THEN IniN.v[k]
  ELSE IF GetsPrinter(name) /\ k \in DOMAIN IniP.v THEN IniP.v[k]
  ELSE section.v[k]
KeysAssigned(name, section) ==
  DOMAIN section.v
    \cup (IF GetsPrinter(name) THEN DOMAIN IniP.v ELSE {})
    \cup (IF GetsNozzle(name) THEN DOMAIN IniN.v ELSE {})
    \cup (IF GetsCombination(name) THEN DOMAIN IniC.v ELSE {})

IniKey(key) == HasSubstring(key, "vendor") \/ SubSeq(key, 1, 9) = "filament:"
JsonFields == {"compatible_printers", "filament_settings_id", "filament_type"}
\* The classification the content rules give a config.
ContentClass(config) ==
  IF config.t # "obj" THEN "null"
  ELSE IF \E key \in DOMAIN config.v : IniKey(key) THEN "ini"
  ELSE "json"

\* C11: with no file path, a non-array object is ini when some top-level key
\* contains "vendor" or starts with "filament:", and json otherwise (by one
\* of compatible_printers, filament_settings_id, filament_type or by
\* default); arrays, null and non-objects give null; the ini test comes
\* first.
C11_ContentRules ==
  (dPc = "returned" /\ dPath = NoPath) =>
    /\ dResult = ContentClass(dConfig)
    /\ dResultOther = ContentClass(dOther)

(***************************************************************************)
(* Claims about the override loads (SpecPrusa: generateConfig calls        *)
(* loadAllOverrides with the printer and nozzle asked for).                *)
(***************************************************************************)
RequestedCombinationFile ==
  LET name == pPrinter.v \o "-" \o pNozzle.v \o ".json"
  IN IF name \in DOMAIN disk.combinations THEN disk.combinations[name] ELSE Absent
\* What a load yields for a file that exists and parses, or does not exist.
Yield(file) == IF file.s = "absent" THEN Null ELSE file.c
OverridesLoadAttempted ==
  /\ BaseExists /\ OverridesRequested
  /\ pPc \notin {"start", "generate"}

\* C12: each of the three override loads yields null when, and only when,
\* its file does not exist; a file that exists but cannot be read or parsed
\* makes loadAllOverrides fail.
C12_AbsentOnlyWhenMissing ==
  OverridesLoadAttempted =>
    IF \E f \in {disk.printers, disk.nozzles, RequestedCombinationFile} :
         f.s \notin {"ok", "absent"}
    THEN pPc = "thrown"
    ELSE /\ pPc # "thrown"
         /\ pOverrides.v["printers"] = Yield(disk.printers)
         /\ pOverrides.v["nozzles"] = Yield(disk.nozzles)
         /\ pOverrides.v["combination"] = Yield(RequestedCombinationFile)

(***************************************************************************)
(* Claims about a missing base config in the INI generator (SpecPrusa).    *)
(***************************************************************************)
PrusaCalled == pPc # (IF pEntry = "generateAllConfigs" THEN "start" ELSE "generate")
BaseMissingError == pPc = "thrown" /\ pError = "Base config not found"

\* C14 as stated: with the base config missing the INI generator ends in a
\* hard error and never returns an empty artifact list.
C14_AsStated ==
  (~BaseExists /\ PrusaCalled) => BaseMissingError

\* C14, amended: with the base config missing, generateConfig throws "Base
\* config not found" and produces no config; generateAllConfigs makes the
\* same test first and returns the empty list without an error.  No
\* artifact is produced either way.
C14_MissingBase ==
  (~BaseExists /\ PrusaCalled) =>
    /\ pResults = <<>> /\ pConfig = Null
    /\ IF pEntry = "generateConfig" THEN BaseMissingError
       ELSE pPc = "returned" /\ pError = "none"

\* generateAllConfigs with override files but no base: the empty list.
C14_Witness ==
  /\ ~BaseExists
  /\ pEntry = "generateAllConfigs" /\ pPc = "returned"
  /\ disk.printers.s = "ok" /\ disk.nozzles.s = "ok"
  /\ pPrinter = Str("MK4") /\ pNozzle = Str("0.4mm")
  /\ pResults = <<>>

(***************************************************************************)
(* Claims about identifiers without a nozzle size (SpecBambu).             *)
(***************************************************************************)
IsDigits(t) == t # "" /\ \A i \in 1..Len(t) : SubSeq(t, i, i) \in
                 {"0", "1", "2", "3", "4", "5", "6", "7", "8", "9"}
IsSpaces(t) == t # "" /\ \A i \in 1..Len(t) : SubSeq(t, i, i) = " "
\* id ends in: digits "." digits, white space, "nozzle".
HasParsableSize(id) ==
  LET c == Len(id) - 5
  IN /\ c >= 1 /\ SubSeq(id, c, Len(id)) = "nozzle"
     /\ \E b \in 1..(c - 1) :
          /\ IsSpaces(SubSeq(id, b, c - 1))
          /\ \E a \in 2..(b - 1) :
               /\ SubSeq(id, a, a) = "."
               /\ IsDigits(SubSeq(id, a + 1, b - 1))
               /\ IsDigits(SubSeq(id, a - 1, a - 1))
Unparsable == {i \in 1..Len(bCompat) : ~HasParsableSize(bCompat[i])}
ExtractionError == bPc = "thrown" /\ bError = "Could not extract nozzle size"

\* C15: an identifier without a decimal number before " nozzle" (table
\* nozzle "1mm") makes generateConfig throw for that identifier, and
\* generateAllConfigs throws it on: it returns no list, partial or with the
\* identifier skipped, and it goes past no such identifier.
C15_ExtractionFailure ==
  /\ bPc = "returned" => Unparsable = {}
  /\ ExtractionError => bIdx \in Unparsable
  /\ (bIdx \in Unparsable /\ bPc # "loop") => ExtractionError
  /\ \A i \in Unparsable : bIdx <= i

\* "X 0.4 nozzle" was generated, then "X 1 nozzle" threw.
C15_Witness ==
  /\ ExtractionError
  /\ bCompat = <<"X 0.4 nozzle", "X 1 nozzle">>
  /\ bIdx = 2
  /\ Len(bResults) = 1

(***************************************************************************)
(* Claims about validateBambuConfig (SpecValidate).                        *)
(***************************************************************************)
RequiredFields == {"compatible_printers", "filament_settings_id", "filament_type"}
IsArrayField(config, f) == f \in DOMAIN config.v /\ config.v[f].t = "arr"
Mentions(seq, f) == \E i \in 1..Len(seq) : HasSubstring(seq[i], f)

\* C17: validateBambuConfig returns isValid = false exactly when one of
\* compatible_printers, filament_settings_id, filament_type is missing or
\* not an array, with one error naming each such field and none naming
\* another; a compatible_printers array of a length other than 1 gives a
\* warning and no error.
C17_RequiredArrays ==
  vPc = "returned" =>
    /\ vResult.isValid <=> \A f \in RequiredFields : IsArrayField(vConfig, f)
    /\ \A f \in RequiredFields :
         Mentions(vResult.errors, f) <=> ~IsArrayField(vConfig, f)
    /\ Len(vResult.errors)
         = Cardinality({f \in RequiredFields : ~IsArrayField(vConfig, f)})
    /\ (IsArrayField(vConfig, "compatible_printers")
        /\ Len(vConfig.v["compatible_printers"].v) # 1)
         => /\ Len(vResult.warnings) = 1
            /\ ~Mentions(vResult.errors, "compatible_printers")
    /\ (IsArrayField(vConfig, "compatible_printers")
        /\ Len(vConfig.v["compatible_printers"].v) = 1)
         => vResult.warnings = <<>>

\* Two printers and the other two fields in order: a warning, still valid.
C17_Witness ==
  /\ vPc = "returned"
  /\ IsArrayField(vConfig, "compatible_printers")
  /\ vConfig.v["compatible_printers"] = StrArr(<<"X 0.4 nozzle", "Y 0.4 nozzle">>)
  /\ IsArrayField(vConfig, "filament_settings_id")
  /\ IsArrayField(vConfig, "filament_type")
  /\ vResult.isValid /\ vResult.errors = <<>> /\ Len(vResult.warnings) = 1

(***************************************************************************)
(* Claims about validateAll (checked under SpecValidateAll).               *)
(***************************************************************************)
\* The files validateAll looks at in one material, with their paths: both
\* base files of every slicer directory, and printers.json, nozzles.json and
\* the .json entries of combinations/ of the two slicers with overrides.
JsonFilesOf(mat, mdir) ==
  {<<slicerDirPath(mat, mdir.slicers[i]) \o "base.json",
     SlicerDirOf(mdir, mdir.slicers[i]).baseJson>> : i \in 1..Len(mdir.slicers)}
  \cup {<<slicerDirPath(mat, s) \o "printers.json", SlicerDirOf(mdir, s).printers>> :
          s \in {"prusaslicer", "bambuslicer"}}
  \cup {<<slicerDirPath(mat, s) \o "nozzles.json", SlicerDirOf(mdir, s).nozzles>> :
          s \in {"prusaslicer", "bambuslicer"}}
  \cup UNION {
         {<<slicerDirPath(mat, s) \o "combinations/" \o e.name, e.file>> :
            e \in {x \in Elems(SlicerDirOf(mdir, s).combinations.entries) :
                     EndsWith(x.name, ".json")}} :
         s \in {"prusaslicer", "bambuslicer"}}
IniFilesOf(mat, mdir) ==
  {<<slicerDirPath(mat, mdir.slicers[i]) \o "base.ini",
     SlicerDirOf(mdir, mdir.slicers[i]).baseIni>> : i \in 1..Len(mdir.slicers)}
\* The paths of the files with a problem: text that does not parse as JSON,
\* or a file that cannot be read.
ProblemPathsOf(mat, mdir) ==
  {f[1] : f \in {g \in JsonFilesOf(mat, mdir) : g[2].s \in {"malformed", "eio"}}}
  \cup {f[1] : f \in {g \in IniFilesOf(mat, mdir) : g[2].s = "eio"}}
\* The slicer directories without a base config.
BaselessSlicersOf(mdir) ==
  {s \in Elems(mdir.slicers) :
     SlicerDirOf(mdir, s).baseIni.s \in {"absent", "eperm"}
     /\ SlicerDirOf(mdir, s).baseJson.s \in {"absent", "eperm"}}
HasPrefixOfSomeMaterial(text) ==
  \E i \in 1..Len(aTree) : StartsWith(text, "[" \o MaterialNames[i] \o "] ")
AllFinished == aPc \in {"returned", "rejected"}

\* C18: validateAll visits every material and collects every error and every
\* warning found, never stopping at the first problem, each prefixed with
\* "[material]"; the result is valid if and only if the collected error list
\* is empty.
C18_CollectsEverything ==
  AllFinished =>
    /\ aPc = "returned"
    /\ \A i \in 1..Len(aTree) :
         /\ \A p \in ProblemPathsOf(MaterialNames[i], aTree[i]) :
              \E k \in 1..Len(aResult.errors) :
                /\ StartsWith(aResult.errors[k], "[" \o MaterialNames[i] \o "] ")
                /\ HasSubstring(aResult.errors[k], p)
         /\ \A s \in BaselessSlicersOf(aTree[i]) :
              \E k \in 1..Len(aResult.warnings) :
                /\ StartsWith(aResult.warnings[k], "[" \o MaterialNames[i] \o "] ")
                /\ HasSubstring(aResult.warnings[k],
                                "[" \o MaterialNames[i] \o "/" \o s \o "] base config not found")
    /\ \A k \in 1..Len(aResult.errors) : HasPrefixOfSomeMaterial(aResult.errors[k])
    /\ \A k \in 1..Len(aResult.warnings) : HasPrefixOfSomeMaterial(aResult.warnings[k])
    /\ aResult.isValid <=> aResult.errors = <<>>

(***************************************************************************)
(* Claims about the build (checked under SpecBuild).                       *)
(***************************************************************************)
\* The slicer directories of the build, as <<material index, slicer index>>.
SlicerPlaces == {<<i, j>> : i \in 1..Len(tree), j \in 1..2} \cap
                {p \in (1..Len(tree)) \X (1..2) : p[2] <= Len(tree[p[1]])}
\* The build is past the slicer at place p: it has gone on to a later one,
\* or it has ended.
PastSlicer(p) ==
  \/ buildPc \in {"done", "failed", "exit", "manifest"}
  \/ buildPc = "slicer" /\ (mIdx > p[1] \/ (mIdx = p[1] /\ sIdx > p[2]))
\* base.json is there and is not JSON, and there is no base.ini.
UnparsableBase(p) ==
  /\ tree[p[1]][p[2]].dir.baseIni = Absent
  /\ tree[p[1]][p[2]].dir.baseJson = Malformed
BaseJsonPathOf(p) ==
  materialsDir \o MaterialNames[p[1]] \o "/" \o tree[p[1]][p[2]].slicer \o "/base.json"
MissingBaseReport(p) ==
  "No base config found for " \o MaterialNames[p[1]] \o "/" \o tree[p[1]][p[2]].slicer
SavedFor(p) ==
  \E k \in 1..Len(saved) :
    saved[k].material = MaterialNames[p[1]] /\ saved[k].slicer = tree[p[1]][p[2]].slicer

\* C13: a base config that is present but cannot be parsed ends in a hard
\* error with the file path and the parser message; it is never reported as a
\* missing base config, and nothing is generated for that material/slicer.
C13_UnparsableBaseFails ==
  \A p \in SlicerPlaces :
    (UnparsableBase(p) /\ PastSlicer(p) /\ ~(buildPc \in {"failed", "exit"} /\ mIdx < p[1])) =>
      /\ \E k \in 1..Len(reports) :
           /\ HasSubstring(reports[k], BaseJsonPathOf(p))
           /\ HasSubstring(reports[k], "Unexpected token")
      /\ ~Contains(reports, MissingBaseReport(p))
      /\ ~SavedFor(p)

\* The k-th call of saveConfig has written its file.
Written(k) ==
  /\ saved[k].path \in DOMAIN fsys
  /\ fsys[saved[k].path].kind = "file"
\* The required fields of the format of a config are there.
HasRequiredFields(k) ==
  IF EndsWith(saved[k].filename, ".json")
  THEN validateBambuConfig(saved[k].config).isValid
  ELSE validatePrusaConfig(saved[k].config).isValid

\* C16: saveConfig serializes no artifact whose resolved config lacks a
\* required field of its format (JSON: the arrays compatible_printers,
\* filament_settings_id and filament_type; INI: a vendor section with a
\* name); such a config ends in a validation failure, not in a written file.
C16_RequiredFieldsBeforeWrite ==
  \A k \in 1..Len(saved) : Written(k) => HasRequiredFields(k)

\* The slicer at place p, its directory, and whether the build gets to it.
SlicerAt(p) == tree[p[1]][p[2]].slicer
DiskAt(p) == [tree[p[1]][p[2]].dir EXCEPT !.printersConfig = printersJson]
Considered(p) ==
  ~(~options.release /\ Truthy(options.slicer) /\ options.slicer.v # SlicerAt(p))
printerOption == IF options.release THEN Undefined ELSE options.printer
nozzleOption == IF options.release THEN Undefined ELSE options.nozzle
\* Loading or format classification fails at p.
LoadingFailsAt(p) ==
  LET base == loadBaseConfig(DiskAt(p), SlicerAt(p))
  IN \/ ~Truthy(base.config)
     \/ detectFormat(base.config, base.filePath) = "null"
FormatAt(p) ==
  LET base == loadBaseConfig(DiskAt(p), SlicerAt(p))
  IN detectFormat(base.config, base.filePath)
\* Generation fails at p: an identifier without a nozzle size, overrides
\* that cannot be loaded, or no config for the printer and nozzle asked for.
GenerationFailsAt(p) ==
  LET ids == compatiblePrintersOf(printersJson)
  IN IF FormatAt(p) = "json"
     THEN \/ \E i \in 1..Len(ids) :
               \/ ~Truthy(extractNozzleSize(ids[i]))
               \/ IsThrown(loadAllOverrides(DiskAt(p), extractPrinterName(ids[i]),
                                            extractNozzleSize(ids[i]).v))
          \/ \A i \in 1..Len(ids) :
               \/ Truthy(printerOption) /\ extractPrinterName(ids[i]) # printerOption.v
               \/ Truthy(nozzleOption) /\ extractNozzleSize(ids[i]) # nozzleOption
     ELSE \/ /\ Truthy(printerOption) /\ Truthy(nozzleOption)
             /\ IsThrown(loadAllOverrides(DiskAt(p), printerOption.v, nozzleOption.v))
          \/ Truthy(printerOption) \/ Truthy(nozzleOption)
FailsAt(p) == Considered(p) /\ (LoadingFailsAt(p) \/ GenerationFailsAt(p))
Before(p, q) == p[1] < q[1] \/ (p[1] = q[1] /\ p[2] < q[2])
ReportedAt(p) ==
  \E k \in 1..Len(reports) :
    \/ HasSubstring(reports[k], MaterialNames[p[1]] \o "/" \o SlicerAt(p))
    \/ HasSubstring(reports[k], SlicerAt(p) \o " configs for " \o MaterialNames[p[1]])
BuildOver == buildPc \in {"done", "manifest"}

IntendedPath(k) ==
  JoinPath(JoinPath(OutputBase, saved[k].slicer), saved[k].filename)

\* C20: with dryRun set, saveConfig creates no directory and writes no file,
\* and returns the path outputDir/filename it writes to otherwise; a whole
\* build or release with dryRun leaves the file system as it was: no output
\* directory cleared, no config, manifest, zip or changelog written.
C20_DryRunWritesNothing ==
  /\ \A k \in 1..Len(saved) :
       /\ saved[k].path = IntendedPath(k)
       /\ ~options.dryRun => Written(k)
  /\ options.dryRun => fsys = StaleOutput

\* A dry run of a release is over, and saveConfig was called in it.
C20_Witness ==
  /\ options.dryRun /\ options.release /\ buildPc = "done"
  /\ saved # <<>>
  /\ fsys = StaleOutput


(***************************************************************************)
(* Claims about the options of the INI generator (SpecPrusa).              *)
(***************************************************************************)
\* generateAllConfigs has come to its end: it returned or threw.
PrusaAllEnded == pEntry = "generateAllConfigs" /\ pPc \in {"returned", "thrown"}
\* What the call that ended has come to.
PrusaOutcome ==
  [thrown |-> pPc = "thrown", error |-> pError, results |-> pResults]
BothOptions(printer, nozzle) == Truthy(printer) /\ Truthy(nozzle)

\* C21 as stated: a call of generateAllConfigs on the same files that
\* differs only in options.printer / options.nozzle returns the same
\* artifacts with the same config contents.
C21_AsStated ==
  PrusaAllEnded =>
    \A printer \in PrinterOptions, nozzle \in NozzleOptions :
      prusaGenerateAllConfigs(disk, printer, nozzle) = PrusaOutcome

\* C21: the INI generator reads options.printer and options.nozzle.  A call
\* ends as generateAllConfigs on its files and its own options does, and
\* every call in which printer or nozzle is missing ends as the call without
\* options does: two calls on the same files can only differ when one of
\* them has both options, which make generateConfig load and apply the
\* overrides they select.
C21_OptionsSelectOverrides ==
  PrusaAllEnded =>
    /\ PrusaOutcome = prusaGenerateAllConfigs(disk, pPrinter, pNozzle)
    /\ \A printer \in PrinterOptions, nozzle \in NozzleOptions :
         ~BothOptions(printer, nozzle) =>
           prusaGenerateAllConfigs(disk, printer, nozzle)
             = prusaGenerateAllConfigs(disk, Undefined, Undefined)
    /\ ~BothOptions(pPrinter, pNozzle) =>
         PrusaOutcome = prusaGenerateAllConfigs(disk, Undefined, Undefined)

\* A call with only a printer has returned its artifact, on files whose
\* printers.json has a fragment for that printer, and the same files give
\* another config to the call with printer and nozzle.
C21_Witness ==
  /\ PrusaAllEnded /\ pPc = "returned" /\ pResults # <<>>
  /\ Truthy(pPrinter) /\ ~Truthy(pNozzle)
  /\ Truthy(Lookup(Obj("printers" :> loadJSON(disk.printers)), "printers", pPrinter.v))
  /\ \E nozzle \in NozzleOptions :
       /\ Truthy(nozzle)
       /\ ~prusaGenerateAllConfigs(disk, pPrinter, nozzle).thrown
       /\ prusaGenerateAllConfigs(disk, pPrinter, nozzle).results # pResults


(***************************************************************************)
(* Claims about deepMerge and its arguments (checked under SpecHeap).      *)
(***************************************************************************)
\* The memory before the calls.
HeapBefore == HeapOfArgs(hTarget, hSource).heap
\* Every object that was in memory before the calls, the arguments and the
\* objects nested in them at every depth, has the fields it had.
ArgumentsIntact ==
  /\ Len(hHeap) >= Len(HeapBefore)
  /\ \A a \in 1..Len(HeapBefore) : hHeap[a] = HeapBefore[a]
  /\ Deref(hHeap, hRefs.target) = hTarget
  /\ Deref(hHeap, hRefs.source) = hSource

\* C28: deepMerge never mutates its arguments: after deepMerge(target,
\* source, options), under every array strategy and at every nesting depth,
\* target and source are what they were, whether the call returns (the
\* merged object) or throws; and after the fold mergeAll(target, null,
\* source) they still are.
C28_ArgumentsNeverMutated ==
  /\ hPc \in {"merged", "folded"} =>
       /\ ArgumentsIntact
       /\ hRefs.thrown = IsThrown(deepMerge(hTarget, hSource, hOptions))
       /\ ~hRefs.thrown =>
            Deref(hHeap, hRefs.merged) = deepMerge(hTarget, hSource, hOptions)
  /\ hPc = "folded" =>
       /\ hRefs.allThrown = IsThrown(mergeAll(<<hTarget, Null, hSource>>))
       /\ ~hRefs.allThrown =>
            Deref(hHeap, hRefs.all) = mergeAll(<<hTarget, Null, hSource>>)

\* Both calls are over; deepMerge went into a nested object that target and
\* source both have, and its result differs from target.
C28_Witness ==
  /\ hPc = "folded" /\ ~hRefs.thrown /\ ~hRefs.allThrown
  /\ IsObj(Get(hTarget, "a")) /\ IsObj(Get(hSource, "a"))
  /\ Get(Deref(hHeap, hRefs.merged), "a") # Get(hTarget, "a")
  /\ Get(Deref(hHeap, hRefs.merged), "a") # Get(hSource, "a")
  /\ ArrayStrategyOf(hOptions) = "merge"

(***************************************************************************)
(* C22: calling a generator twice.                                         *)
(***************************************************************************)
\* An object of this call has been loaded at the address.
Loaded(cell) == IsRef(cell) /\ cell.v > 0

\* The objects the JSON generator loaded are what was loaded, config is the
\* generator's own object, and the artifacts returned hold what they held
\* when they were returned.
BambuMemoryIntact ==
  /\ Loaded(bHeap.base) =>
       /\ Deref(bHeap.heap, bHeap.base) = loadBaseConfig(disk, bSlicer).config
       /\ Deref(bHeap.heap, bHeap.overrides) = bOverrides
       /\ Deref(bHeap.heap, bHeap.config) = bConfig
       /\ bHeap.config # bHeap.base
  /\ Len(bHeap.results) = Len(bResults)
  /\ \A i \in 1..Len(bHeap.results) :
       Deref(bHeap.heap, bHeap.results[i]) = bResults[i].config
  /\ \A i \in 1..Len(bCalls.refs) :
       Deref(bHeap.heap, bCalls.refs[i]) = bCalls.first[i].config

\* The same for the INI generator.
PrusaMemoryIntact ==
  /\ Loaded(pHeap.base) =>
       /\ Deref(pHeap.heap, pHeap.base) = loadBaseConfig(disk, prusaSlicer).config
       /\ Deref(pHeap.heap, pHeap.overrides) = pOverrides
       /\ Deref(pHeap.heap, pHeap.config) = pConfig
       /\ pHeap.config # pHeap.base
  /\ \A i \in 1..Len(pHeap.results) :
       Deref(pHeap.heap, pHeap.results[i]) = pResults[i].config
  /\ \A i \in 1..Len(pCalls.refs) :
       Deref(pHeap.heap, pCalls.refs[i]) = pCalls.config

\* The second call ended as the first did, with equal artifacts.
BambuCallsAgree ==
  bCalls.n = 2 /\ bPc \in {"returned", "thrown"} =>
    bPc = bCalls.pc /\ bError = bCalls.error /\ bResults = bCalls.first
PrusaCallsAgree ==
  pCalls.n = 2 /\ pPc \in {"returned", "thrown", "generated"} =>
    /\ pPc = "thrown" <=> pCalls.pc = "thrown"
    /\ pError = pCalls.error
    /\ pPc # "thrown" => pConfig = pCalls.config
    /\ pPc = "returned" => pCalls.pc = "returned" /\ pResults = pCalls.first

\* C22: calling the INI or the JSON generator twice with identical inputs
\* never mutates the loaded base config or the loaded override fragments
\* (every assignment of the generator is made on its own clone or on an
\* object deepMerge made), the artifacts the first call returned are not
\* changed by the second, and the two calls return equal artifacts (or throw
\* the same error).
C22_TwiceSameAndBaseIntact ==
  /\ BambuMemoryIntact /\ PrusaMemoryIntact
  /\ BambuCallsAgree /\ PrusaCallsAgree

\* The JSON generator has returned for the second time, at least one
\* artifact, and a printer fragment changed the config of the last one.
C22_Witness ==
  /\ bCalls.n = 2 /\ bPc = "returned" /\ Len(bResults) >= 1
  /\ bCalls.first = bResults
  /\ LET base == loadBaseConfig(disk, bSlicer).config
         last == bResults[Len(bResults)]
     IN /\ IsObj(base)
        /\ applyPrinterOverrides(JsonClone(base), bOverrides, last.printer)
             # JsonClone(base)
        /\ last.config # base

(***************************************************************************)
(* C23: the override loads settle in any order (checked under SpecLoads).  *)
(***************************************************************************)
LoadsPrinterName == extractPrinterName(loads.printer)
LoadsNozzleSize == extractNozzleSize(loads.printer).v
\* One of the three loads of this call fails.
SomeLoadFails ==
  \E name \in LoadNames :
    IsThrown(overrideLoad(disk, name, LoadsPrinterName, LoadsNozzleSize))
\* The config that the files of the material give for the printer, with the
\* layers applied in the fixed order.
ConfigOfFiles ==
  LET overrides == loadAllOverrides(disk, LoadsPrinterName, LoadsNozzleSize)
  IN postProcess(
       applyCombinationOverrides(
         applyNozzleOverrides(
           applyPrinterOverrides(
             JsonClone(loadBaseConfig(disk, "bambuslicer").config),
             overrides, LoadsPrinterName),
           overrides, LoadsNozzleSize),
         overrides, LoadsPrinterName, LoadsNozzleSize),
       loads.printer, version)

\* C23: the printer, nozzle and combination loads may settle in any order;
\* whatever the order, loadAllOverrides returns the record {printers,
\* nozzles, combination} of the three files and the generated config is the
\* one the fixed application order gives; and if any one load fails, no
\* config is produced: generateConfig throws, also when the other two loads
\* have succeeded.
C23_AnyOrderSameConfig ==
  /\ loads.pc = "generated" =>
       /\ ~SomeLoadFails
       /\ loads.overrides = loadAllOverrides(disk, LoadsPrinterName, LoadsNozzleSize)
       /\ loads.config = ConfigOfFiles
  /\ loads.started /\ SomeLoadFails =>
       /\ loads.config = Null /\ loads.overrides = Null
       /\ loads.pc \in {"awaiting", "thrown"}
       /\ DOMAIN loads.settled = LoadNames => loads.promise = "rejected"
  /\ loads.started /\ loads.pc = "thrown" =>
       /\ SomeLoadFails
       /\ IsThrown(loadAllOverrides(disk, LoadsPrinterName, LoadsNozzleSize))

\* The combination load settled first and the printer load last, each file
\* gave a fragment for this printer, and the config was generated.
C23_Witness ==
  /\ loads.pc = "generated"
  /\ loads.order = <<"combination", "nozzles", "printers">>
  /\ Truthy(Lookup(loads.overrides, "printers", LoadsPrinterName))
  /\ Truthy(Lookup(loads.overrides, "nozzles", LoadsNozzleSize))
  /\ Truthy(Get(loads.overrides, "combination"))
  /\ Get(loads.overrides, "combination") # Get(loads.overrides, "printers")

(***************************************************************************)
(* C24: the filenames of one generateAllConfigs call (checked under        *)
(* SpecNames).                                                             *)
(***************************************************************************)
\* addnorth_{material}_{printer-dashed}_{nozzle}mm_{version}.json
DocumentedFilename(r) ==
  "addnorth_" \o material \o "_" \o ReplaceSpaceRuns(r.printer, "-") \o "_"
    \o r.nozzle \o "mm_" \o version \o ".json"

\* C24: the artifacts one JSON generateAllConfigs call returns for distinct
\* (printer, nozzle) pairs have pairwise distinct filenames, each of the
\* form addnorth_{material}_{printer-dashed}_{nozzle}mm_{version}.json.
C24_DistinctFilenames ==
  /\ \A i \in 1..Len(bResults) : bResults[i].filename = DocumentedFilename(bResults[i])
  /\ \A i, j \in 1..Len(bResults) :
       <<bResults[i].printer, bResults[i].nozzle>>
           # <<bResults[j].printer, bResults[j].nozzle>>
         => bResults[i].filename # bResults[j].filename

(***************************************************************************)
(* C25: the combination file the JSON generator reads (SpecBambu).         *)
(***************************************************************************)
\* combinations/{printer}-{nozzle}.json as the contributing guide names it:
\* the printer's spaces as dashes, the nozzle size with its mm.
DocumentedCombinationName(printerName, nozzleSize) ==
  ReplaceSpaceRuns(printerName, "-") \o "-" \o nozzleSize \o "mm" \o ".json"
DocumentedCombinationFile ==
  LET name == DocumentedCombinationName(CurrentName, CurrentSize)
  IN IF name \in DOMAIN disk.combinations THEN disk.combinations[name] ELSE Absent

\* C25: the combination override the JSON generator has loaded for a
\* (printer, nozzle) pair is the content of the file
\* combinations/{printer}-{nozzle}.json named as documented
\* (Bambu-Lab-X1-0.4mm.json for Bambu Lab X1 at 0.4mm).
C25_DocumentedCombinationRead ==
  bPc \in {"printer", "nozzle", "combination", "merged", "generated"} =>
    Get(bOverrides, "combination") = loadJSON(DocumentedCombinationFile)

(***************************************************************************)
(* C26: the precedence of the layers in the INI generator (SpecPrusa).     *)
(***************************************************************************)
\* The value of the most specific layer that sets key k; the base section's
\* when no layer does.
MostSpecific(section, k) ==
  IF k \in DOMAIN IniC.v THEN IniC.v[k]
  ELSE IF k \in DOMAIN IniN.v THEN IniN.v[k]
  ELSE IF k \in DOMAIN IniP.v THEN IniP.v[k]
  ELSE section.v[k]

\* C26: in the INI generator, in a section that matches both the printer and
\* the nozzle pattern, the final value of every key is the combination
\* fragment's if it sets the key, else the nozzle fragment's, else the
\* printer fragment's, else the base value; after the printer and after the
\* nozzle layer the value is that of the layers applied so far.
C26_IniPrecedence ==
  (OverridesRequested /\ pPc \in {"nozzle", "combination", "overridden"}) =>
    \A name \in DOMAIN IniBaseOnDisk.v :
      (GetsPrinter(name) /\ GetsNozzle(name)) =>
        LET section == IniBaseOnDisk.v[name]
            keys == DOMAIN section.v \cup DOMAIN IniP.v \cup DOMAIN IniN.v
                      \cup DOMAIN IniC.v
        IN /\ pPc = "overridden" =>
                /\ DOMAIN pConfig.v[name].v = keys
                /\ \A k \in keys : pConfig.v[name].v[k] = MostSpecific(section, k)
           /\ pPc = "nozzle" =>
                \A k \in DOMAIN IniP.v : pConfig.v[name].v[k] = IniP.v[k]
           /\ pPc = "combination" =>
                \A k \in DOMAIN IniN.v : pConfig.v[name].v[k] = IniN.v[k]

\* All three layers set speed, each to another value, for MK4 at 0.4mm; fan
\* comes from the printer layer and width from the nozzle layer only.
C26_Witness ==
  /\ pPc = "overridden" /\ OverridesRequested
  /\ pPrinter = Str("MK4") /\ pNozzle = Str("0.4mm")
  /\ "speed" \in DOMAIN IniP.v \cap DOMAIN IniN.v \cap DOMAIN IniC.v
  /\ IniP.v["speed"] # IniN.v["speed"] /\ IniN.v["speed"] # IniC.v["speed"]
  /\ LET final == pConfig.v["print:*MK4*0.4nozzle*"].v
     IN /\ final["speed"] = IniC.v["speed"]
        /\ final["fan"] = IniP.v["fan"] /\ "fan" \notin DOMAIN IniC.v \cup DOMAIN IniN.v
        /\ final["width"] = IniN.v["width"] /\ "width" \notin DOMAIN IniC.v
        /\ final["speed"] # IniBaseOnDisk.v["print:*MK4*0.4nozzle*"].v["speed"]

(***************************************************************************)
(* C27: the version field (SpecTwice: both generators).                    *)
(***************************************************************************)
HasField(obj, key) == IsObj(obj) /\ key \in DOMAIN obj.v

\* The JSON generator: version of every artifact against the base.
JsonVersionIffInBase ==
  \A i \in 1..Len(bResults) :
    LET base == loadBaseConfig(disk, bSlicer).config
        config == bResults[i].config
    IN IF HasField(base, "version")
       THEN Get(config, "version") = Str(version)
       ELSE ~HasField(config, "version")

\* The INI generator: vendor.config_version of the config against the base.
IniVersionIffInBase ==
  (pPc \in {"generated", "returned"} /\ IsObj(pConfig)) =>
    LET base == loadBaseConfig(disk, prusaSlicer).config
    IN IF HasField(Get(base, "vendor"), "config_version")
       THEN Get(Get(pConfig, "vendor"), "config_version") = Str(version)
       ELSE ~HasField(Get(pConfig, "vendor"), "config_version")

\* C27: the build version is written into the version field if and only if
\* the base config has the field: top-level version for the JSON generator,
\* vendor.config_version for the INI generator; an artifact of a base
\* without the field has no such field.
C27_VersionIffInBase == JsonVersionIffInBase /\ IniVersionIffInBase

(***************************************************************************)
(* C29: which base file is used (checked under SpecBase).                  *)
(***************************************************************************)
\* base.ini is used whenever it exists.
IniUsedWheneverItExists ==
  Accessible(disk.baseIni) => dPath = Str(iniPath(baseSlicer))

\* filePath names the file the config was parsed from.
PathNamesParsedFile ==
  Truthy(dConfig) =>
    \/ dPath = Str(iniPath(baseSlicer)) /\ dConfig = loadINI(disk.baseIni)
    \/ dPath = Str(jsonPath(baseSlicer)) /\ dConfig = loadJSON(disk.baseJson)

\* C29: loadBaseConfig uses base.ini whenever it exists, also next to a
\* base.json; the filePath it returns names the file the config was parsed
\* from; and for every non-null base config validateSlicer takes the format
\* from that file's extension, never from the content.
C29_IniFirstAndPathDecides ==
  /\ dPc \in {"loaded", "validated"} =>
       IniUsedWheneverItExists /\ PathNamesParsedFile
  /\ (dPc = "validated" /\ Truthy(dConfig)) =>
       KnownExtension /\ dResult = ByExtension

(***************************************************************************)
(* C30: validate, then clear, then save (checked under SpecBuild).         *)
(***************************************************************************)
\* Nothing of the output has been touched and no generator has run.
OutputUntouched ==
  /\ fsys = StaleOutput /\ saved = <<>> /\ slicerResults = {}
  /\ bPc = "idle" /\ pPc = "idle"

\* The output directory of every slicer holds only what this build saved.
OutputDirsCleared ==
  \A s \in getAllSlicers(tree) :
    \A q \in DOMAIN fsys :
      StartsWith(q, JoinPath(OutputBase, s) \o "/") =>
        \E k \in 1..Len(saved) : saved[k].path = q

\* C30: in a build that is not a dry run validateAll runs before any output
\* is touched; with at least one validation error the process exits with
\* failure, its errors printed, no output directory cleared, no generator
\* run and no artifact written; and the output directories are cleared
\* before the first saveConfig: up to the clearing nothing is saved, and
\* after it the directories hold only what this build saved.
C30_ValidateClearSave ==
  /\ (~options.dryRun /\ ~validate(tree)) =>
       /\ buildPc \in {"start", "exit"}
       /\ OutputUntouched
       /\ buildPc = "exit" => reports = validationErrors(tree) /\ reports # <<>>
  /\ buildPc = "exit" => ~options.dryRun /\ ~validate(tree)
  /\ buildPc \in {"start", "clear"} => OutputUntouched
  /\ buildPc = "release" => saved = <<>>
  /\ (~options.dryRun /\ buildPc \notin {"start", "clear", "exit"}) => OutputDirsCleared

\* A build that is not a dry run has exited on its validation errors, and
\* what an earlier build left in the output is still there.
C30_Witness ==
  /\ ~options.dryRun /\ buildPc = "exit"
  /\ reports # <<>>
  /\ "output/bambuslicer/addnorth_pla_old.json" \in DOMAIN fsys
  /\ "bambuslicer" \in getAllSlicers(tree)

====
